---- MODULE Spec2Model ----
(***************************************************************************)
(* Model of the procurement agent (src/agent/main.py), its web front end   *)
(* (src/agent/web_app.py), the supplier pricing tools                      *)
(* (src/supplier-pricing-mcp/tools/get_offers_for_items.py and             *)
(* search_products.py) and the currency tool                               *)
(* (src/fx-rates-mcp/tools/convert_amount.py).                             *)
(*                                                                         *)
(* Python values are tagged records so that values of different Python    *)
(* types can be compared: a quantity is [t |-> "int", v |-> 2],            *)
(* [t |-> "str", v |-> 0] (a non-numeric string), [t |-> "inf", v |-> 0]   *)
(* (float infinity) or [t |-> "none", v |-> 0].  Strings that the code     *)
(* strips, lowers or searches are sequences of one-character strings.      *)
(* Money is counted in cents, so round(x, 2) keeps every value.            *)
(***************************************************************************)
EXTENDS Integers, Sequences, FiniteSets, TLC

\* ------------------------------------------------------------------ bounds

\* Longest list of purchase items handed to get_offers_for_items.
MaxItems == 2

\* ------------------------------------------------------- Python primitives

None == "None"

\* str.strip(): drop leading and trailing whitespace.
RECURSIVE LStrip(_)
LStrip(s) == IF s # <<>> /\ Head(s) = " " THEN LStrip(Tail(s)) ELSE s

RECURSIVE RStrip(_)
RStrip(s) ==
    IF s # <<>> /\ s[Len(s)] = " " THEN RStrip(SubSeq(s, 1, Len(s) - 1)) ELSE s

Strip(s) == RStrip(LStrip(s))

\* str.lower() on the alphabet of the model.
LowerChar(c) == IF c = "A" THEN "a" ELSE IF c = "B" THEN "b" ELSE c

Lower(s) == [i \in 1..Len(s) |-> LowerChar(s[i])]

\* `sub in s` for strings.
Contains(sub, s) ==
    \E i \in 0..(Len(s) - Len(sub)) : SubSeq(s, i + 1, i + Len(sub)) = sub

\* str.split(): the maximal runs of non-whitespace characters.
RECURSIVE SplitFrom(_, _)
SplitFrom(s, cur) ==
    IF s = <<>> THEN (IF cur = <<>> THEN <<>> ELSE <<cur>>)
    ELSE IF Head(s) = " "
         THEN (IF cur = <<>> THEN <<>> ELSE <<cur>>) \o SplitFrom(Tail(s), <<>>)
         ELSE SplitFrom(Tail(s), Append(cur, Head(s)))

Split(s) == SplitFrom(s, <<>>)

\* int(x or 0): the exception it raises ("ok" when none) and its value.
PyInt(q) ==
    CASE q.t = "int"  -> [exc |-> "ok", v |-> q.v]
      [] q.t = "none" -> [exc |-> "ok", v |-> 0]
      [] q.t = "str"  -> [exc |-> "ValueError", v |-> 0]
      [] q.t = "inf"  -> [exc |-> "OverflowError", v |-> 0]

\* try: int(qty_raw or 0) except (TypeError, ValueError): 0.  An
\* OverflowError is not caught and leaves the caller.
IntOrZero(q) ==
    LET r == PyInt(q)
    IN  IF r.exc \in {"TypeError", "ValueError"} THEN [exc |-> "ok", v |-> 0] ELSE r

\* str((item or {}).get("sku") or "").strip()
SkuOf(item) == IF item.sku.t = "none" THEN <<>> ELSE Strip(item.sku.v)

\* ------------------------------------------------------------ input domains

SkuNone == [t |-> "none", v |-> <<>>]
SkuStr(s) == [t |-> "str", v |-> s]

Skus == { SkuNone, SkuStr(<<" ">>), SkuStr(<<" ", "a", " ">>), SkuStr(<<"B">>) }

QInt(n) == [t |-> "int", v |-> n]

Quantities == { QInt(0), QInt(2), [t |-> "str", v |-> 0], [t |-> "inf", v |-> 0] }

NoMaxPrice == [t |-> "none", v |-> 0]

MaxPrices == { NoMaxPrice, [t |-> "num", v |-> 500] }

ItemDomain == [sku : Skus, quantity : Quantities, max_unit_price : MaxPrices]

RECURSIVE SeqsUpTo(_, _)
SeqsUpTo(S, n) ==
    IF n = 0 THEN { <<>> }
    ELSE LET shorter == SeqsUpTo(S, n - 1)
         IN  shorter \cup { Append(s, x) : s \in { t \in shorter : Len(t) = n - 1 }, x \in S }

ItemLists == SeqsUpTo(ItemDomain, MaxItems)

\* max_suppliers_per_item: the default, and a caller asking for no offers.
MaxSuppliersValues == {0, 3}

\* ------------------------------------------------------------------- state

VARIABLES
    use_printful,      \* USE_PRINTFUL
    api_key_set,       \* PRINTFUL_API_KEY is a non-empty string
    items,             \* the items argument of get_offers_for_items
    max_suppliers_per_item,  \* its max_suppliers_per_item argument
    spc,               \* position in get_offers_for_items
    printful_reason,   \* its local printful_reason
    tier_log,          \* the provider calls made so far, each with its outcome
    printful_http,     \* what the network did for each item Printful was asked for
    tool_result        \* the envelope returned, or NoResult

supplier_vars ==
    << use_printful, api_key_set, items, max_suppliers_per_item, spc, printful_reason,
       tier_log, printful_http, tool_result >>

VARIABLES
    request,              \* the ParsedRequest the LLM's answer to the user text parses to
    mode,                 \* the plan builder running: "pipeline" or "tools-agent"
    apc,                  \* position in build_procurement_plan[_tools_agent]
    step,                 \* chat-completion requests made by _run_tools_agent_dialog
    responses,            \* the model's responses to them, in order
    tool_trace,           \* its tool_trace, later extended by the plan builder
    agent_final_message,  \* its final_assistant_message
    ext_calls,            \* the external calls of the running plan builder, in order
    supplier_resp,        \* locals of the plan builder
    totals_supplier,
    fx_resp,
    totals_target,
    webhook_result,
    finished,             \* the plan builders that returned: mode, calls made, plan
    server_memo           \* what the MCP servers answered to the plan builder's own calls

agent_vars ==
    << request, mode, apc, step, responses, tool_trace, agent_final_message, ext_calls,
       supplier_resp, totals_supplier, fx_resp, totals_target, webhook_result,
       finished, server_memo >>

VARIABLES
    fx_amount,         \* the arguments of convert_amount
    fx_base,
    fx_quote,
    fx_pc,             \* position in convert_amount
    fx_http,           \* the requests made to the FX API, each with its outcome
    fx_result          \* what convert_amount returned, or NoFxResult

fx_vars == << fx_amount, fx_base, fx_quote, fx_pc, fx_http, fx_result >>

NoFxResult == [raised |-> FALSE, d |-> <<>>]

FxIdle ==
    /\ fx_amount = 0
    /\ fx_base = ""
    /\ fx_quote = ""
    /\ fx_pc = "idle"
    /\ fx_http = <<>>
    /\ fx_result = NoFxResult

VARIABLES
    pure_fn,           \* the function of src/agent/main.py called on its own
    pure_arg,          \* its argument
    pure_out           \* what it returned or raised, or NotCalled

pure_vars == << pure_fn, pure_arg, pure_out >>

NotCalled == [called |-> FALSE]

PureIdle ==
    /\ pure_fn = "none"
    /\ pure_arg = <<>>
    /\ pure_out = NotCalled

VARIABLES
    search_query,      \* the arguments of search_products
    search_limit,
    search_pc,         \* position in search_products
    search_http,       \* the requests made to the catalog API, each with its response
    search_result      \* what search_products returned or raised, or NoSearchResult

search_vars == << search_query, search_limit, search_pc, search_http, search_result >>

NoSearchResult == [error |-> "", code |-> 0, items |-> <<>>]

SearchIdle ==
    /\ search_query = <<>>
    /\ search_limit = 0
    /\ search_pc = "idle"
    /\ search_http = <<>>
    /\ search_result = NoSearchResult

VARIABLES
    conversations,     \* the store of web_app.py: conversation id -> history
    uuids_drawn,       \* how many ids uuid4() has handed out
    chat_pc,           \* position of each /api/chat request in chat_endpoint
    chat_req,          \* its req.conversation_id
    chat_conv_id,      \* its local conv_id
    chat_response      \* the conversation_id of its ChatResponse

web_vars == << conversations, uuids_drawn, chat_pc, chat_req, chat_conv_id, chat_response >>

WebIdle ==
    /\ conversations = <<>>
    /\ uuids_drawn = 0
    /\ chat_pc = <<>>
    /\ chat_req = <<>>
    /\ chat_conv_id = <<>>
    /\ chat_response = <<>>

\* What convert_amount leaves alone besides the supplier tool and the agent.
outside_fx == << pure_vars, search_vars, web_vars >>

OutsideFxIdle == PureIdle /\ SearchIdle /\ WebIdle

\* What a function called on its own leaves alone.
outside_pure == << fx_vars, search_vars, web_vars >>

OutsidePureIdle == FxIdle /\ SearchIdle /\ WebIdle

\* What search_products leaves alone.
outside_search == << fx_vars, pure_vars, web_vars >>

OutsideSearchIdle == FxIdle /\ PureIdle /\ WebIdle

\* What the web app leaves alone.
outside_web == << fx_vars, pure_vars, search_vars >>

OutsideWebIdle == FxIdle /\ PureIdle /\ SearchIdle

\* The variables of the tools modelled besides the supplier tool and the agent.
other_vars == << fx_vars, pure_vars, search_vars, web_vars >>

OthersIdle == FxIdle /\ PureIdle /\ SearchIdle /\ WebIdle

vars == << supplier_vars, agent_vars, other_vars >>

NoResult == [isError |-> FALSE, content |-> "none", structuredContent |-> [provider |-> "none"]]

DEFAULT_CURRENCY == "USD"

EmptySku == << "<empty>" >>

\* ------------------------------------------------- get_offers_for_items.py

EmptyBlock(item) == [item |-> item, offers |-> <<>>]

\* Mutant: the demo structure reports items the way the two providers do, with
\* the "<empty>" placeholder for an item without sku.
build_demo_structured_placeholder(its, reason) ==
    [ currency          |-> DEFAULT_CURRENCY,
      items             |-> [i \in 1..Len(its) |-> EmptyBlock(its[i])],
      total_min_cost    |-> 0,
      unavailable_skus  |-> [i \in 1..Len(its) |->
                               IF SkuOf(its[i]) = <<>> THEN EmptySku ELSE SkuOf(its[i])],
      resolved_variants |-> <<>>,
      provider          |-> "demo_fallback",
      fallback_used     |-> TRUE,
      reason            |-> reason ]

build_demo_structured(its, reason) ==
    LET kept == SelectSeq([i \in 1..Len(its) |-> SkuOf(its[i])], LAMBDA s : s # <<>>)
    IN  [ currency          |-> DEFAULT_CURRENCY,
          items             |-> [i \in 1..Len(its) |-> EmptyBlock(its[i])],
          total_min_cost    |-> 0,
          unavailable_skus  |-> kept,
          resolved_variants |-> <<>>,
          provider          |-> "demo_fallback",
          fallback_used     |-> TRUE,
          reason            |-> reason ]

\* _format_summary_text: its title, and whether int(qty or 0) raised an
\* exception that its except clause (TypeError, ValueError) lets through.
format_summary_text(structured) ==
    [ raised |-> \E i \in 1..Len(structured.items) :
                    IntOrZero(structured.items[i].item.quantity).exc # "ok",
      title  |-> IF structured.provider = "printful" /\ ~structured.fallback_used
                 THEN "Printful"
                 ELSE IF structured.provider = "fakestoreapi"
                      THEN "FakeStore API"
                      ELSE "demo" ]

wrap_tool_result(structured, text) ==
    [ isError |-> FALSE, content |-> text, structuredContent |-> structured ]

\* A Python dict d after d[k] = v.
DictPut(d, k, v) == [x \in (DOMAIN d) \cup {k} |-> IF x = k THEN v ELSE d[x]]

\* float(max_price_raw) if max_price_raw is not None else None, then
\* `max_price is not None and unit_price > max_price`.
OverMaxPrice(item, unit_price) ==
    item.max_unit_price.t = "num" /\ unit_price > item.max_unit_price.v

\* `not sku or qty <= 0`: the item is reported unavailable without a lookup.
NoLookup(item) == SkuOf(item) = <<>> \/ IntOrZero(item.quantity).v <= 0

\* ---- Printful, the primary provider

\* What one item's catalog lookup (_fetch_printful_product_and_variants) did:
\*   "skipped"     no request was made for the item
\*   "http_error"  a request raised httpx.HTTPError (network down, 4xx/5xx)
\*   "no_product"  the search or the product's variant list came back empty
\*   "crash"       a response was not the JSON the code expects: an exception
\*                 that is not an httpx.HTTPError
\*   "variant"     a first variant with a price (in cents), or a price that
\*                 float() rejects
GoodPrice(c) == [t |-> "num", v |-> c]
BadPrice == [t |-> "bad", v |-> 0]

PfSkipped == [kind |-> "skipped", price |-> BadPrice]

PfLookups ==
    { [kind |-> k, price |-> BadPrice] : k \in {"http_error", "no_product", "crash"} }
    \cup { [kind |-> "variant", price |-> p] : p \in {GoodPrice(1250), BadPrice} }

VariantId == 7

\* float(unit_price_raw or 0.0), 0.99 when float() raises.
PrintfulUnitPrice(price) == IF price.t = "num" THEN price.v ELSE 99

PrintfulOffer(sku, unit_price) ==
    [ supplier |-> "printful", sku |-> sku, unit_price |-> unit_price,
      currency |-> DEFAULT_CURRENCY, variant_id |-> VariantId ]

PfAccInit ==
    [ raised |-> FALSE, blocks |-> <<>>, unavailable |-> <<>>, resolved |-> <<>>,
      total |-> 0, http |-> <<>> ]

Unavailable(acc, item, sku, http) ==
    [acc EXCEPT !.blocks = Append(@, EmptyBlock(item)),
                !.unavailable = Append(@, sku),
                !.http = Append(@, http)]

\* except httpx.HTTPError inside the loop: the item is reported unavailable and
\* the loop goes on.
PrintfulHttpError(acc, item) == Unavailable(acc, item, SkuOf(item), "http_error")

\* position_total = unit_price * qty
PositionTotal(unit_price, qty) == unit_price * qty

\* The Python slice list[:n] of a one-element list.
SliceOfOne(offer, n) == IF n >= 1 THEN << offer >> ELSE <<>>

\* One turn of the `for item in items` loop of _get_offers_from_printful.
PrintfulItem(acc, item, out, max_suppliers) ==
    LET sku == SkuOf(item)
        qty == IntOrZero(item.quantity)
        unit_price == PrintfulUnitPrice(out.price)
    IN  IF qty.exc # "ok" THEN [acc EXCEPT !.raised = TRUE]
        ELSE IF NoLookup(item)
        THEN Unavailable(acc, item, IF sku = <<>> THEN EmptySku ELSE sku, "skipped")
        ELSE IF out.kind = "http_error" THEN PrintfulHttpError(acc, item)
        ELSE IF out.kind = "crash"
        THEN [acc EXCEPT !.raised = TRUE, !.http = Append(@, "crash")]
        ELSE IF out.kind = "no_product" THEN Unavailable(acc, item, sku, "no_product")
        ELSE IF OverMaxPrice(item, unit_price)
        THEN [Unavailable(acc, item, sku, "variant")
                EXCEPT !.resolved = DictPut(@, sku, VariantId)]
        ELSE [acc EXCEPT
                !.blocks = Append(@, [item |-> item,
                                      offers |-> SliceOfOne(PrintfulOffer(sku, unit_price),
                                                            max_suppliers)]),
                !.resolved = DictPut(@, sku, VariantId),
                !.total = @ + PositionTotal(unit_price, qty.v),
                !.http = Append(@, "variant")]

RECURSIVE PrintfulLoop(_, _, _, _, _)
PrintfulLoop(its, outs, i, acc, max_suppliers) ==
    IF i > Len(its) \/ acc.raised THEN acc
    ELSE PrintfulLoop(its, outs, i + 1, PrintfulItem(acc, its[i], outs[i], max_suppliers),
                      max_suppliers)

\* _get_offers_from_printful: whether it raised, the structure it returns and
\* the lookups made.  `outs` is what the network does for each item.
get_offers_from_printful(its, outs, key_set, max_suppliers) ==
    LET acc == IF key_set THEN PrintfulLoop(its, outs, 1, PfAccInit, max_suppliers)
               ELSE [PfAccInit EXCEPT !.raised = TRUE]
    IN  [ raised |-> acc.raised,
          http   |-> acc.http,
          structured |->
            [ currency          |-> DEFAULT_CURRENCY,
              items             |-> acc.blocks,
              total_min_cost    |-> acc.total,
              unavailable_skus  |-> acc.unavailable,
              resolved_variants |-> acc.resolved,
              provider          |-> "printful",
              fallback_used     |-> FALSE,
              reason            |-> None ] ]

\* ---- fakestoreapi.com, the fallback provider

Product(id, title, category, price) ==
    [id |-> id, title |-> title, category |-> category, price |-> price]

ProductLists ==
    { <<>>,
      << Product(1, <<"B">>, <<"a">>, GoodPrice(300)),
         Product(2, <<"x", "a">>, <<>>, GoodPrice(700)),
         Product(3, <<"a", " ", "b">>, <<"b">>, BadPrice) >> }

\* What GET https://fakestoreapi.com/products did: the request or its status
\* raised, the body was not a list, or a list of products came back.
FsOutcomes ==
    { [kind |-> k, products |-> <<>>] : k \in {"http_error", "not_list"} }
    \cup { [kind |-> "list", products |-> ps] : ps \in ProductLists }

\* The score of one product, doubled (the code adds 3, 2, 1 and 0.5).
RECURSIVE WordScore(_, _, _)
WordScore(words, title, category) ==
    IF words = <<>> THEN 0
    ELSE (IF Contains(Head(words), title) THEN 2 ELSE 0)
         + (IF Contains(Head(words), category) THEN 1 ELSE 0)
         + WordScore(Tail(words), title, category)

ProductScore(p, query) ==
    (IF Contains(query, Lower(p.title)) THEN 6 ELSE 0)
    + (IF Contains(query, Lower(p.category)) THEN 4 ELSE 0)
    + WordScore(Split(query), Lower(p.title), Lower(p.category))

\* The loop of _pick_best_fakestore_product: the index of the first product
\* with the highest score above 0, or 0 when no product scores.
RECURSIVE BestIndex(_, _, _, _, _)
BestIndex(products, query, i, best, best_score) ==
    IF i > Len(products) THEN best
    ELSE LET score == ProductScore(products[i], query)
         IN  IF score > best_score
             THEN BestIndex(products, query, i + 1, i, score)
             ELSE BestIndex(products, query, i + 1, best, best_score)

\* _pick_best_fakestore_product: the index of the product picked, 0 for None.
pick_best_fakestore_product(products, sku_query) ==
    LET query == Lower(Strip(sku_query))
        best == BestIndex(products, query, 1, 0, 0)
    IN  IF products = <<>> THEN 0
        ELSE IF query = <<>> THEN 1
        ELSE IF best = 0 THEN 1
        ELSE best

\* float(price_raw or 0.0), 0.0 when float() raises.
FakestoreUnitPrice(price) == IF price.t = "num" THEN price.v ELSE 0

FakestoreOffer(sku, unit_price, product_id) ==
    [ supplier |-> "fakestoreapi", sku |-> sku, unit_price |-> unit_price,
      currency |-> DEFAULT_CURRENCY, variant_id |-> product_id ]

\* One turn of the `for item in items` loop of _get_offers_from_fakestore.
FakestoreItem(acc, item, products, max_suppliers) ==
    LET sku == SkuOf(item)
        qty == IntOrZero(item.quantity)
        pick == pick_best_fakestore_product(products, sku)
        unit_price == FakestoreUnitPrice(products[pick].price)
    IN  IF qty.exc # "ok" THEN [acc EXCEPT !.raised = TRUE]
        ELSE IF NoLookup(item)
        THEN Unavailable(acc, item, IF sku = <<>> THEN EmptySku ELSE sku, "skipped")
        ELSE IF pick = 0 THEN Unavailable(acc, item, sku, "no_product")
        ELSE IF OverMaxPrice(item, unit_price) THEN Unavailable(acc, item, sku, "product")
        ELSE [acc EXCEPT
                !.blocks = Append(@, [item |-> item,
                                      offers |-> SliceOfOne(FakestoreOffer(sku, unit_price,
                                                                           products[pick].id),
                                                            max_suppliers)]),
                !.resolved = DictPut(@, sku, products[pick].id),
                !.total = @ + PositionTotal(unit_price, qty.v),
                !.http = Append(@, "product")]

RECURSIVE FakestoreLoop(_, _, _, _, _)
FakestoreLoop(its, products, i, acc, max_suppliers) ==
    IF i > Len(its) \/ acc.raised THEN acc
    ELSE FakestoreLoop(its, products, i + 1,
                       FakestoreItem(acc, its[i], products, max_suppliers), max_suppliers)

\* _get_offers_from_fakestore: whether it raised and the structure it returns.
get_offers_from_fakestore(its, out, reason_from_printful, max_suppliers) ==
    LET acc == IF out.kind = "list"
               THEN FakestoreLoop(its, out.products, 1, PfAccInit, max_suppliers)
               ELSE [PfAccInit EXCEPT !.raised = TRUE]
    IN  [ raised |-> acc.raised,
          structured |->
            [ currency          |-> DEFAULT_CURRENCY,
              items             |-> acc.blocks,
              total_min_cost    |-> acc.total,
              unavailable_skus  |-> acc.unavailable,
              resolved_variants |-> acc.resolved,
              provider          |-> "fakestoreapi",
              fallback_used     |-> TRUE,
              reason            |-> IF reason_from_printful # None
                                    THEN reason_from_printful
                                    ELSE "printful_off_or_unavailable" ] ]

\* ---- the tool get_offers_for_items, one action per tier of its cascade

\* Mutant: the key is not looked at before Printful is tried.
PrintfulConfiguredIgnoringKey == use_printful

\* `if USE_PRINTFUL and PRINTFUL_API_KEY`
PrintfulConfigured == use_printful /\ api_key_set

\* The lookups the network is asked for: one outcome per item that reaches
\* the catalog lookup, "skipped" for the others.
PrintfulNetwork(its) ==
    { outs \in [1..Len(its) -> PfLookups \cup {PfSkipped}] :
        \A i \in 1..Len(its) : (outs[i] = PfSkipped) <=> NoLookup(its[i]) }

LogCall(tier, raised) ==
    Append(tier_log, [tier |-> tier, outcome |-> IF raised THEN "raised" ELSE "returned"])

\* Lines 525-534: the Printful call and the summary of its result are inside
\* one try block; any exception of either sends the tool on to fakestoreapi.
TryPrintful ==
    /\ spc = "start"
    /\ PrintfulConfigured
    /\ \E outs \in PrintfulNetwork(items) :
         LET r == get_offers_from_printful(items, outs, api_key_set, max_suppliers_per_item)
             text == format_summary_text(r.structured)
         IN  /\ tier_log' = LogCall("printful", r.raised)
             /\ printful_http' = r.http
             /\ IF ~r.raised /\ ~text.raised
                THEN /\ tool_result' = wrap_tool_result(r.structured, text.title)
                     /\ spc' = "done"
                     /\ printful_reason' = printful_reason
                ELSE /\ tool_result' = tool_result
                     /\ spc' = "fakestore"
                     /\ printful_reason' = "printful_error"
    /\ UNCHANGED << use_printful, api_key_set, items, max_suppliers_per_item >>
    /\ UNCHANGED << agent_vars, other_vars >>

\* Lines 535-541: Printful is switched off or has no key.
SkipPrintful ==
    /\ spc = "start"
    /\ ~PrintfulConfigured
    /\ printful_reason' = IF ~use_printful THEN "use_printful_false" ELSE "no_api_key"
    /\ spc' = "fakestore"
    /\ UNCHANGED << use_printful, api_key_set, items, max_suppliers_per_item, tier_log,
                    printful_http, tool_result >>
    /\ UNCHANGED << agent_vars, other_vars >>

\* Lines 543-554: the fakestoreapi call, again with its summary in the try block.
TryFakestore ==
    /\ spc = "fakestore"
    /\ \E out \in FsOutcomes :
         LET r == get_offers_from_fakestore(items, out, printful_reason,
                                            max_suppliers_per_item)
             text == format_summary_text(r.structured)
         IN  /\ tier_log' = LogCall("fakestoreapi", r.raised)
             /\ IF ~r.raised /\ ~text.raised
                THEN /\ tool_result' = wrap_tool_result(r.structured, text.title)
                     /\ spc' = "done"
                ELSE /\ tool_result' = tool_result
                     /\ spc' = "demo"
    /\ UNCHANGED << use_printful, api_key_set, items, max_suppliers_per_item,
                    printful_reason, printful_http >>
    /\ UNCHANGED << agent_vars, other_vars >>

\* Lines 556-568: the demo structure; its summary is outside any try block, so
\* an exception of _format_summary_text leaves the tool.
DemoFallback ==
    /\ spc = "demo"
    /\ LET reason == IF printful_reason # None
                     THEN << printful_reason, "fakestore_unavailable" >>
                     ELSE << "fakestore_unavailable" >>
           structured == build_demo_structured(items, reason)
           text == format_summary_text(structured)
       IN  /\ tier_log' = LogCall("demo", text.raised)
           /\ IF text.raised
              THEN /\ spc' = "raised"
                   /\ tool_result' = tool_result
              ELSE /\ spc' = "done"
                   /\ tool_result' = wrap_tool_result(structured, text.title)
    /\ UNCHANGED << use_printful, api_key_set, items, max_suppliers_per_item,
                    printful_reason, printful_http >>
    /\ UNCHANGED << agent_vars, other_vars >>


\* ------------------------------------------------------------ agent/main.py

\* Bounds of the language model's behaviour in a tools-agent dialog: its first
\* MaxModelCalls tool calls are arbitrary; any later request is for a tool the
\* agent does not know.
MaxModelCalls == 2

\* max_steps of _run_tools_agent_dialog (its default; the only caller passes none).
max_steps == 8

\* ---- what a tool call hands back

\* A payload is a string, a dict or None.
StrPayload(text) == [kind |-> "str", s |-> text, d |-> <<>>]
DictPayload(dict) == [kind |-> "dict", s |-> "", d |-> dict]
NonePayload == [kind |-> "none", s |-> "", d |-> <<>>]

Num(n) == [t |-> "num", v |-> n]
NotNum == [t |-> "str", v |-> 0]

\* dict.get(key, default)
Get(dict, key, default) == IF key \in DOMAIN dict THEN dict[key] ELSE default

\* The text of a content entry, by what json.loads makes of it: a JSON object
\* (kind "dict", d the object), other valid JSON (kind "json"), text that is
\* no JSON (kind "str"), "" or None.
JsonObjectText(dict) == [kind |-> "dict", s |-> "{...}", d |-> dict]
JsonOtherText == [kind |-> "json", s |-> "[1, 2]", d |-> <<>>]

\* What session.call_tool did: it raised, or it returned a CallToolResult with
\* structuredContent, structured_content and the texts of its content entries.
CallToolResult(sc, sc2, content) ==
    [kind |-> "result", structuredContent |-> sc, structured_content |-> sc2,
     content |-> content]

McpRaised ==
    [kind |-> "exception", structuredContent |-> NonePayload,
     structured_content |-> NonePayload, content |-> <<>>]
McpStructured(dict) ==
    CallToolResult(DictPayload(dict), NonePayload, << StrPayload("summary") >>)
McpJsonText(dict) == CallToolResult(NonePayload, NonePayload, << JsonObjectText(dict) >>)
McpPlainText(text) == CallToolResult(NonePayload, NonePayload, << StrPayload(text) >>)
McpEmpty == CallToolResult(NonePayload, NonePayload, <<>>)

\* bool(x) of a payload.
Truthy(p) ==
    CASE p.kind = "dict" -> DOMAIN p.d # {}
      [] p.kind = "str" -> p.s # ""
      [] p.kind = "json" -> TRUE
      [] OTHER -> FALSE

\* inner = d.get("structuredContent") or d.get("structured_content"); the
\* inner dict if it is one, else d.
UnwrapNested(dict) ==
    LET a == Get(dict, "structuredContent", NonePayload)
        b == Get(dict, "structured_content", NonePayload)
        inner == IF Truthy(a) THEN a ELSE b
    IN  IF inner.kind = "dict" THEN DictPayload(inner.d) ELSE DictPayload(dict)

\* json.loads(text): the value, or an exception for what is no JSON. Of the
\* values only objects are told apart.
json_loads(text) ==
    CASE text.kind = "dict" -> [raised |-> FALSE, value |-> DictPayload(text.d)]
      [] text.kind = "json" -> [raised |-> FALSE, value |-> text]
      [] OTHER -> [raised |-> TRUE, value |-> NonePayload]

\* Lines 303-315: the first content entry with a text that is a JSON object.
RECURSIVE FirstJsonObject(_)
FirstJsonObject(contents) ==
    IF contents = <<>> THEN NonePayload
    ELSE LET text == Head(contents)
             outer == json_loads(text)
         IN  IF Truthy(text) /\ ~outer.raised /\ outer.value.kind = "dict"
             THEN outer.value
             ELSE FirstJsonObject(Tail(contents))

\* The text of a content entry as the string returned at line 321.
RawText(text) == StrPayload(text.s)

\* _extract_structured_from_mcp_result
extract_structured_from_mcp_result(result) ==
    IF result.structuredContent.kind = "dict"
    THEN UnwrapNested(result.structuredContent.d)
    ELSE IF result.structured_content.kind = "dict"
    THEN UnwrapNested(result.structured_content.d)
    ELSE LET outer == FirstJsonObject(result.content)
         IN  IF outer.kind = "dict" THEN UnwrapNested(outer.d)
             ELSE IF result.content # <<>> /\ Truthy(Head(result.content))
             THEN RawText(Head(result.content))
             ELSE DictPayload(<<>>)

\* f"Error calling tool '{tool_name}': {exc}"
ErrorCallingTool(tool_name) ==
    StrPayload(CASE tool_name = "get_offers_for_items" ->
                      "Error calling tool 'get_offers_for_items': ..."
                 [] tool_name = "convert_amount" ->
                      "Error calling tool 'convert_amount': ..."
                 [] tool_name = "send_procurement_plan_webhook" ->
                      "Error calling tool 'send_procurement_plan_webhook': ...")

\* Mutant: the exception of the MCP client is not caught.
call_mcp_tool_json_uncaught(tool_name, outcome) ==
    IF outcome.kind = "exception"
    THEN [raised |-> TRUE, payload |-> NonePayload]
    ELSE [raised |-> FALSE, payload |-> extract_structured_from_mcp_result(outcome)]

\* _call_mcp_tool_json: `except Exception` turns a failed call into a string.
call_mcp_tool_json(tool_name, outcome) ==
    IF outcome.kind = "exception"
    THEN [raised |-> FALSE, payload |-> ErrorCallingTool(tool_name)]
    ELSE [raised |-> FALSE, payload |-> extract_structured_from_mcp_result(outcome)]

\* ---- the answers of the three MCP servers

SupplierDict(currency, total, quantities) ==
    [ currency |-> currency, total_min_cost |-> total,
      items |-> [i \in 1..Len(quantities) |->
                   [item |-> [quantity |-> quantities[i]], offers |-> <<>>]],
      provider |-> "printful" ]

FxDict(base, quote, amount_quote) ==
    [base |-> base, quote |-> quote, amount_quote |-> amount_quote]

WebhookDict == [ok |-> TRUE, status_code |-> 200]

\* str.upper() on the currency codes of the model.
Upper(c) ==
    CASE c = "usd" -> "USD" [] c = "eur" -> "EUR" [] c = "gbp" -> "GBP"
      [] c = "rub" -> "RUB" [] OTHER -> c

\* To the plan builder's own get_offers_for_items call.
SupplierOutcomes ==
    { McpRaised,
      McpPlainText("Error executing tool get_offers_for_items"),
      McpStructured(SupplierDict("USD", Num(2500), << QInt(2), QInt(1) >>)),
      McpStructured(SupplierDict("eur", Num(700), << QInt(3) >>)),
      McpJsonText(SupplierDict("USD", Num(0), << QInt(2) >>)),
      McpEmpty }

\* To a supplier_get_offers call of the language model.
ModelSupplierOutcomes ==
    { McpRaised, McpStructured(SupplierDict("USD", Num(1000), << QInt(1) >>)) }

\* convert_amount upper-cases base and quote and echoes them.
FxOutcomes(base, quote) ==
    { McpRaised,
      McpStructured(FxDict(Upper(base), Upper(quote), Num(2300))),
      McpStructured(FxDict(Upper(base), Upper(quote), NotNum)) }

ModelFxOutcomes(base, quote) ==
    { McpStructured(FxDict(Upper(base), Upper(quote), Num(900))) }

WebhookOutcomes == { McpRaised, McpStructured(WebhookDict) }

\* ---- totals

Totals(currency, total_net, total_items) ==
    [currency |-> currency, total_net |-> total_net, total_items |-> total_items]

\* float(x), 0.0 on TypeError or ValueError.
FloatOrZero(x) == IF x.t = "num" THEN x.v ELSE 0

\* Mutant: only the blocks that have offers are counted.
RECURSIVE SumQuantitiesWithOffers(_)
SumQuantitiesWithOffers(blocks) ==
    IF blocks = <<>> THEN 0
    ELSE LET item == Get(Head(blocks), "item", <<>>)
             qty == IntOrZero(Get(item, "quantity", QInt(0)))
         IN  (IF Get(Head(blocks), "offers", <<>>) # <<>> THEN qty.v ELSE 0)
             + SumQuantitiesWithOffers(Tail(blocks))

RECURSIVE SumQuantities(_)
SumQuantities(blocks) ==
    IF blocks = <<>> THEN 0
    ELSE LET item == Get(Head(blocks), "item", <<>>)
             qty == IntOrZero(Get(item, "quantity", QInt(0)))
         IN  qty.v + SumQuantities(Tail(blocks))

\* The envelope unwrapped the way _aggregate_totals_from_supplier_response
\* does it (lines 400-409).
UnwrapEnvelope(dict) ==
    LET a == Get(dict, "structuredContent", NonePayload)
        b == Get(dict, "structured_content", NonePayload)
    IN  IF a.kind = "dict" THEN a.d ELSE IF b.kind = "dict" THEN b.d ELSE dict

\* str(supplier_resp.get("currency") or "USD")
CurrencyOrUSD(dict) ==
    LET c == Get(dict, "currency", None)
    IN  IF c \in {None, ""} THEN "USD" ELSE c

\* _aggregate_totals_from_supplier_response
aggregate_totals_from_supplier_response(resp) ==
    IF resp.kind # "dict" THEN Totals("USD", 0, 0)
    ELSE LET sr == UnwrapEnvelope(resp.d)
         IN  Totals(CurrencyOrUSD(sr),
                    FloatOrZero(Get(sr, "total_min_cost", Num(0))),
                    SumQuantities(Get(sr, "items", <<>>)))

\* ---- parse_user_request and the requests it can yield

TheItem == [sku |-> SkuStr(<<"B">>), quantity |-> QInt(2), max_unit_price |-> NoMaxPrice]

ParsedRequests ==
    [ target_currency : {"usd", "EUR"},
      webhook_url : {None, "https://hook"},
      items : { << TheItem >> } ]

NoRequest == [target_currency |-> "", webhook_url |-> None, items |-> <<>>]

\* items_payload
ItemsPayload(req) == req.items

SupplierArgs(it) == [items |-> it, max_suppliers_per_item |-> 3]

FxArgs(amount, base, quote) == [amount |-> amount, base |-> base, quote |-> quote]

\* An external call: who makes it (the plan builder or the language model),
\* to which service or tool, with which arguments.
ExtCall(by, tool, args) == [by |-> by, tool |-> tool, args |-> args]

\* Mutant: the total is not looked at before converting.
NeedFxIgnoringTotal(totals, req) == Upper(totals.currency) # Upper(req.target_currency)

\* totals_supplier.currency.upper() != parsed.target_currency.upper()
\*   and totals_supplier.total_net > 0
NeedFx(totals, req) ==
    Upper(totals.currency) # Upper(req.target_currency) /\ totals.total_net > 0

\* The totals in the target currency once fx_resp is known.
ConvertedTotals(fx, totals, req, before) ==
    IF fx.kind = "dict"
    THEN LET raw == Get(fx.d, "amount_quote", Num(0))
         IN  Totals(req.target_currency,
                    IF raw.t = "num" THEN raw.v ELSE totals.total_net,
                    totals.total_items)
    ELSE before

\* The "almost ready" plan sent to the webhook, and the plan returned.
TentativePlan(req, sup, tot_s, tot_t, fx) ==
    [ request |-> req, supplier_offers |-> sup, totals_supplier_currency |-> tot_s,
      totals_target_currency |-> tot_t, fx |-> fx ]

FinalPlan(req, sup, tot_s, tot_t, fx, hook, meta) ==
    [ request |-> req, supplier_offers |-> sup, totals_supplier_currency |-> tot_s,
      totals_target_currency |-> tot_t, fx |-> fx, webhook_result |-> hook,
      _meta |-> meta ]

NoTotals == Totals("", 0, 0)

\* The answer of an MCP server to a call of the plan builder: a server
\* answers a repeated identical call the way it answered the first.
Answers(tool, call, outcomes) ==
    IF tool \in DOMAIN server_memo /\ server_memo[tool].call = call
    THEN { server_memo[tool].out }
    ELSE outcomes


\* ---- build_procurement_plan, the pipeline

Builder == "plan builder"
Model == "language model"

LogExt(call) == Append(ext_calls, call)

Memo(tool, call, out) == DictPut(server_memo, tool, [call |-> call, out |-> out])

\* parse_user_request: one chat-completion request, which raises or yields
\* the parsed request.
ParseCall == ExtCall(Builder, "chat_completion (parse)", <<>>)

PipelineAfterFx(req) == IF req.webhook_url # None THEN "webhook" ELSE "return"

\* Mutant: the supplier call is repeated when it gave an error string.
PipelineAfterSupplierRetrying(resp, totals, req) ==
    IF resp.kind = "str" THEN "supplier"
    ELSE IF NeedFx(totals, req) THEN "fx" ELSE PipelineAfterFx(req)

\* What follows the supplier call: the conversion if it is needed (line 763),
\* else the webhook if there is one (line 781), else the return.
PipelineAfterSupplier(resp, totals, req) ==
    IF NeedFx(totals, req) THEN "fx" ELSE PipelineAfterFx(req)

PipelineParse ==
    /\ mode = "pipeline"
    /\ apc = "parse"
    /\ ext_calls' = LogExt(ParseCall)
    /\ \/ apc' = "raised in parse"
       \/ apc' = "supplier"
    /\ UNCHANGED << request, mode, step, responses, tool_trace, agent_final_message,
                    supplier_resp, totals_supplier, fx_resp, totals_target,
                    webhook_result, finished, server_memo >>
    /\ UNCHANGED << supplier_vars, other_vars >>

\* Lines 744-761.
PipelineSupplier ==
    /\ mode = "pipeline"
    /\ apc = "supplier"
    /\ LET call == ExtCall(Builder, "get_offers_for_items",
                           SupplierArgs(ItemsPayload(request)))
       IN  \E out \in Answers("get_offers_for_items", call, SupplierOutcomes) :
             LET r == call_mcp_tool_json("get_offers_for_items", out)
                 totals == aggregate_totals_from_supplier_response(r.payload)
             IN  /\ ext_calls' = LogExt(call)
                 /\ server_memo' = Memo("get_offers_for_items", call, out)
                 /\ IF r.raised
                    THEN /\ apc' = "raised"
                         /\ UNCHANGED << supplier_resp, totals_supplier, totals_target >>
                    ELSE /\ apc' = PipelineAfterSupplier(r.payload, totals, request)
                         /\ supplier_resp' = r.payload
                         /\ totals_supplier' = totals
                         /\ totals_target' = Totals(request.target_currency,
                                                    totals.total_net, totals.total_items)
    /\ UNCHANGED << request, mode, step, responses, tool_trace, agent_final_message, fx_resp,
                    webhook_result, finished >>
    /\ UNCHANGED << supplier_vars, other_vars >>

\* Lines 763-778.
PipelineFx ==
    /\ mode = "pipeline"
    /\ apc = "fx"
    /\ LET call == ExtCall(Builder, "convert_amount",
                           FxArgs(totals_supplier.total_net, totals_supplier.currency,
                                  request.target_currency))
       IN  \E out \in Answers("convert_amount", call,
                              FxOutcomes(call.args.base, call.args.quote)) :
             LET r == call_mcp_tool_json("convert_amount", out)
             IN  /\ ext_calls' = LogExt(call)
                 /\ server_memo' = Memo("convert_amount", call, out)
                 /\ IF r.raised
                    THEN /\ apc' = "raised"
                         /\ UNCHANGED << fx_resp, totals_target >>
                    ELSE /\ apc' = PipelineAfterFx(request)
                         /\ fx_resp' = r.payload
                         /\ totals_target' = ConvertedTotals(r.payload, totals_supplier,
                                                             request, totals_target)
    /\ UNCHANGED << request, mode, step, responses, tool_trace, agent_final_message,
                    supplier_resp, totals_supplier, webhook_result, finished >>
    /\ UNCHANGED << supplier_vars, other_vars >>

WebhookCall ==
    ExtCall(Builder, "send_procurement_plan_webhook",
            [ url |-> request.webhook_url,
              plan |-> TentativePlan(request, supplier_resp, totals_supplier,
                                     totals_target, fx_resp) ])

\* Lines 780-791.
PipelineWebhook ==
    /\ mode = "pipeline"
    /\ apc = "webhook"
    /\ \E out \in Answers("send_procurement_plan_webhook", WebhookCall, WebhookOutcomes) :
         LET r == call_mcp_tool_json("send_procurement_plan_webhook", out)
         IN  /\ ext_calls' = LogExt(WebhookCall)
             /\ server_memo' = Memo("send_procurement_plan_webhook", WebhookCall, out)
             /\ IF r.raised
                THEN apc' = "raised" /\ UNCHANGED webhook_result
                ELSE apc' = "return" /\ webhook_result' = r.payload
    /\ UNCHANGED << request, mode, step, responses, tool_trace, agent_final_message,
                    supplier_resp, totals_supplier, fx_resp, totals_target, finished >>
    /\ UNCHANGED << supplier_vars, other_vars >>

Finish(meta) ==
    Append(finished,
           [ mode |-> mode,
             calls |-> ext_calls,
             plan |-> FinalPlan(request, supplier_resp, totals_supplier, totals_target,
                                fx_resp, webhook_result, meta) ])

\* Lines 793-804.
PipelineReturn ==
    /\ mode = "pipeline"
    /\ apc = "return"
    /\ finished' = Finish([mode |-> "pipeline"])
    /\ apc' = "done"
    /\ UNCHANGED << request, mode, step, responses, tool_trace, agent_final_message, ext_calls,
                    supplier_resp, totals_supplier, fx_resp, totals_target,
                    webhook_result, server_memo >>
    /\ UNCHANGED << supplier_vars, other_vars >>

PipelineNext ==
    PipelineParse \/ PipelineSupplier \/ PipelineFx \/ PipelineWebhook \/ PipelineReturn


\* ---- _run_tools_agent_dialog

\* The tool calls the language model can ask for, each with what the MCP
\* server behind it does when called.
ToolCall(name, args, out) == [name |-> name, args |-> args, out |-> out]

UnknownToolCall == ToolCall("other_tool", <<>>, McpEmpty)

ModelFxPairs == { << "usd", "EUR" >>, << "USD", "GBP" >>, << "EUR", "USD" >> }

ModelToolCalls ==
    { ToolCall("supplier_get_offers", [items |-> << TheItem >>], out) :
        out \in ModelSupplierOutcomes }
    \cup UNION { { ToolCall("fx_convert_amount", FxArgs(Num(1000), p[1], p[2]), out) :
                     out \in ModelFxOutcomes(p[1], p[2]) } : p \in ModelFxPairs }
    \cup { ToolCall("fx_convert_amount", FxArgs(Num(1000), "usd", "EUR"), McpRaised),
           ToolCall("fx_convert_amount", FxArgs(NotNum, "usd", "EUR"), McpRaised) }
    \cup { ToolCall("notify_send_plan", [url |-> u, plan |-> <<>>],
                    McpStructured(WebhookDict)) : u \in {None, "https://hook"} }
    \cup { UnknownToolCall }

\* The tool_calls of one response of the model: one call or two, arbitrary
\* while the model has made fewer than MaxModelCalls calls.
ToolCallBatches(made) ==
    IF made >= MaxModelCalls THEN { << UnknownToolCall >> }
    ELSE { << c >> : c \in ModelToolCalls }
         \cup IF made + 2 <= MaxModelCalls
              THEN { << c1, c2 >> : c1 \in ModelToolCalls, c2 \in ModelToolCalls }
              ELSE {}

\* The final answers of the model: message.content, None or a text.
ModelContents == { None, "final answer" }

\* A response of the model: msg.tool_calls is non-empty, or msg.content.
ToolCallsResponse == [tool_calls |-> TRUE, content |-> None]

ContentResponse(content) == [tool_calls |-> FALSE, content |-> content]

ErrorDict(text) == DictPayload([error |-> text])

\* Lines 670-686: the result of one tool call, and the MCP call made for it
\* (if any); float(args.get("amount", 0.0)) raises on an amount that is no number.
RunToolCall(tc) ==
    CASE tc.name = "supplier_get_offers" ->
           [ raised |-> FALSE,
             result |-> call_mcp_tool_json("get_offers_for_items", tc.out).payload,
             calls  |-> << ExtCall(Model, "get_offers_for_items",
                                   SupplierArgs(tc.args.items)) >> ]
      [] tc.name = "fx_convert_amount" ->
           IF tc.args.amount.t # "num"
           THEN [raised |-> TRUE, result |-> NonePayload, calls |-> <<>>]
           ELSE [ raised |-> FALSE,
                  result |-> call_mcp_tool_json("convert_amount", tc.out).payload,
                  calls  |-> << ExtCall(Model, "convert_amount", tc.args) >> ]
      [] tc.name = "notify_send_plan" ->
           IF tc.args.url = None
           THEN [ raised |-> FALSE,
                  result |-> ErrorDict("notify_send_plan called without url"),
                  calls  |-> <<>> ]
           ELSE [ raised |-> FALSE,
                  result |-> call_mcp_tool_json("send_procurement_plan_webhook",
                                                tc.out).payload,
                  calls  |-> << ExtCall(Model, "send_procurement_plan_webhook",
                                        tc.args) >> ]
      [] OTHER ->
           [raised |-> FALSE, result |-> ErrorDict("Unknown tool"), calls |-> <<>>]

ToolInvocation(name, args, result) == [name |-> name, args |-> args, result |-> result]

\* Lines 662-703: the tool calls of one response, run in order.
RECURSIVE RunToolCalls(_, _)
RunToolCalls(batch, acc) ==
    IF batch = <<>> \/ acc.raised THEN acc
    ELSE LET tc == Head(batch)
             r == RunToolCall(tc)
         IN  RunToolCalls(Tail(batch),
                 IF r.raised THEN [acc EXCEPT !.raised = TRUE]
                 ELSE [ raised |-> FALSE,
                        trace |-> Append(acc.trace,
                                         ToolInvocation(tc.name, tc.args, r.result)),
                        calls |-> acc.calls \o r.calls ])

ChatCall == ExtCall(Builder, "chat_completion (tools)", <<>>)

\* Mutant: the loop runs once more than max_steps.
LoopRunsOnceMore == step <= max_steps

\* `for step in range(max_steps)`: another chat-completion request is made.
LoopRuns == step < max_steps

DialogIdle ==
    UNCHANGED << request, mode, supplier_resp, totals_supplier, fx_resp, totals_target,
                 webhook_result, finished, server_memo >>

\* Lines 630-705: a response with tool_calls.
ModelRequestsTools ==
    /\ mode = "tools-agent"
    /\ apc = "dialog"
    /\ LoopRuns
    /\ \E batch \in ToolCallBatches(Len(tool_trace)) :
         LET r == RunToolCalls(batch, [ raised |-> FALSE, trace |-> tool_trace,
                                        calls |-> LogExt(ChatCall) ])
         IN  /\ step' = step + 1
             /\ responses' = Append(responses, ToolCallsResponse)
             /\ ext_calls' = r.calls
             /\ IF r.raised
                THEN apc' = "raised" /\ UNCHANGED tool_trace
                ELSE apc' = "dialog" /\ tool_trace' = r.trace
    /\ UNCHANGED agent_final_message
    /\ DialogIdle
    /\ UNCHANGED << supplier_vars, other_vars >>

\* Lines 630-641 and 707-711: a response without tool_calls ends the dialog.
ModelAnswers ==
    /\ mode = "tools-agent"
    /\ apc = "dialog"
    /\ LoopRuns
    /\ \E content \in ModelContents :
         /\ responses' = Append(responses, ContentResponse(content))
         /\ agent_final_message' = IF content = None THEN "" ELSE content
    /\ step' = step + 1
    /\ ext_calls' = LogExt(ChatCall)
    /\ apc' = "supplier"
    /\ UNCHANGED tool_trace
    /\ DialogIdle
    /\ UNCHANGED << supplier_vars, other_vars >>

\* Line 630: the chat-completion request raises.
ChatFails ==
    /\ mode = "tools-agent"
    /\ apc = "dialog"
    /\ LoopRuns
    /\ step' = step + 1
    /\ ext_calls' = LogExt(ChatCall)
    /\ apc' = "raised"
    /\ UNCHANGED << responses, tool_trace, agent_final_message >>
    /\ DialogIdle
    /\ UNCHANGED << supplier_vars, other_vars >>

\* Lines 629 and 711: the loop ran max_steps times.
DialogExhausted ==
    /\ mode = "tools-agent"
    /\ apc = "dialog"
    /\ ~LoopRuns
    /\ apc' = "supplier"
    /\ UNCHANGED << step, responses, tool_trace, agent_final_message, ext_calls >>
    /\ DialogIdle
    /\ UNCHANGED << supplier_vars, other_vars >>

DialogNext == ModelRequestsTools \/ ModelAnswers \/ ChatFails \/ DialogExhausted

\* ---- build_procurement_plan_tools_agent

\* Mutant: the trace is searched from its start.
RECURSIVE find_first_tool_result(_, _)
find_first_tool_result(trace, name) ==
    IF trace = <<>> THEN NonePayload
    ELSE IF Head(trace).name = name THEN Head(trace).result
    ELSE find_first_tool_result(Tail(trace), name)

\* _find_last_tool_result: `for inv in reversed(tool_trace)`.
RECURSIVE find_last_tool_result(_, _)
find_last_tool_result(trace, name) ==
    IF trace = <<>> THEN NonePayload
    ELSE IF trace[Len(trace)].name = name THEN trace[Len(trace)].result
    ELSE find_last_tool_result(SubSeq(trace, 1, Len(trace) - 1), name)

AgentParse ==
    /\ mode = "tools-agent"
    /\ apc = "parse"
    /\ ext_calls' = LogExt(ParseCall)
    /\ \/ apc' = "raised in parse"
       \/ apc' = "dialog"
    /\ UNCHANGED << request, mode, step, responses, tool_trace, agent_final_message,
                    supplier_resp, totals_supplier, fx_resp, totals_target,
                    webhook_result, finished, server_memo >>
    /\ UNCHANGED << supplier_vars, other_vars >>

AgentAfterFx(req) == IF req.webhook_url # None THEN "webhook" ELSE "return"

\* need_fx (lines 867-870)
AgentNeedFx(totals, req) == NeedFx(totals, req)

\* Lines 834-865: the supplier result of the dialog, or a call of our own.
AgentSupplier ==
    /\ mode = "tools-agent"
    /\ apc = "supplier"
    /\ LET found == find_last_tool_result(tool_trace, "supplier_get_offers")
           call == ExtCall(Builder, "get_offers_for_items",
                           SupplierArgs(ItemsPayload(request)))
       IN  IF found.kind = "none"
           THEN \E out \in Answers("get_offers_for_items", call, SupplierOutcomes) :
                  LET r == call_mcp_tool_json("get_offers_for_items", out)
                      totals == aggregate_totals_from_supplier_response(r.payload)
                      trace == Append(tool_trace,
                                      ToolInvocation("supplier_get_offers (auto)",
                                                     call.args, r.payload))
                  IN  /\ ext_calls' = LogExt(call)
                      /\ server_memo' = Memo("get_offers_for_items", call, out)
                      /\ IF r.raised
                         THEN /\ apc' = "raised"
                              /\ UNCHANGED << supplier_resp, totals_supplier, fx_resp,
                                              totals_target, tool_trace >>
                         ELSE /\ supplier_resp' = r.payload
                              /\ tool_trace' = trace
                              /\ totals_supplier' = totals
                              /\ fx_resp' = find_last_tool_result(trace, "fx_convert_amount")
                              /\ totals_target' = Totals(request.target_currency,
                                                         totals.total_net,
                                                         totals.total_items)
                              /\ apc' = IF AgentNeedFx(totals, request) THEN "fx"
                                        ELSE AgentAfterFx(request)
           ELSE LET totals == aggregate_totals_from_supplier_response(found)
                IN  /\ supplier_resp' = found
                    /\ totals_supplier' = totals
                    /\ fx_resp' = find_last_tool_result(tool_trace, "fx_convert_amount")
                    /\ totals_target' = Totals(request.target_currency, totals.total_net,
                                               totals.total_items)
                    /\ apc' = IF AgentNeedFx(totals, request) THEN "fx"
                              ELSE AgentAfterFx(request)
                    /\ UNCHANGED << ext_calls, server_memo, tool_trace >>
    /\ UNCHANGED << request, mode, step, responses, agent_final_message, webhook_result, finished >>
    /\ UNCHANGED << supplier_vars, other_vars >>

\* Line 873, negated: the fx result of the dialog is taken as it is.
AgentFxUsable(fx, totals) ==
    fx.kind = "dict" /\ Upper(Get(fx.d, "base", "")) = Upper(totals.currency)

\* Lines 872-902: the conversion, with the fx result of the dialog or a call
\* of our own.
AgentFx ==
    /\ mode = "tools-agent"
    /\ apc = "fx"
    /\ LET call == ExtCall(Builder, "convert_amount",
                           FxArgs(totals_supplier.total_net, totals_supplier.currency,
                                  request.target_currency))
       IN  IF ~AgentFxUsable(fx_resp, totals_supplier)
           THEN \E out \in Answers("convert_amount", call,
                                   FxOutcomes(call.args.base, call.args.quote)) :
                  LET r == call_mcp_tool_json("convert_amount", out)
                  IN  /\ ext_calls' = LogExt(call)
                      /\ server_memo' = Memo("convert_amount", call, out)
                      /\ IF r.raised
                         THEN /\ apc' = "raised"
                              /\ UNCHANGED << fx_resp, totals_target, tool_trace >>
                         ELSE /\ fx_resp' = r.payload
                              /\ tool_trace' =
                                   Append(tool_trace,
                                          ToolInvocation("fx_convert_amount (auto)",
                                                         call.args, r.payload))
                              /\ totals_target' = ConvertedTotals(r.payload, totals_supplier,
                                                                  request, totals_target)
                              /\ apc' = AgentAfterFx(request)
           ELSE /\ totals_target' = ConvertedTotals(fx_resp, totals_supplier, request,
                                                    totals_target)
                /\ apc' = AgentAfterFx(request)
                /\ UNCHANGED << ext_calls, server_memo, fx_resp, tool_trace >>
    /\ UNCHANGED << request, mode, step, responses, agent_final_message, supplier_resp,
                    totals_supplier, webhook_result, finished >>
    /\ UNCHANGED << supplier_vars, other_vars >>

\* Lines 904-918.
AgentWebhook ==
    /\ mode = "tools-agent"
    /\ apc = "webhook"
    /\ \E out \in Answers("send_procurement_plan_webhook", WebhookCall, WebhookOutcomes) :
         LET r == call_mcp_tool_json("send_procurement_plan_webhook", out)
         IN  /\ ext_calls' = LogExt(WebhookCall)
             /\ server_memo' = Memo("send_procurement_plan_webhook", WebhookCall, out)
             /\ IF r.raised
                THEN apc' = "raised" /\ UNCHANGED webhook_result
                ELSE apc' = "return" /\ webhook_result' = r.payload
    /\ UNCHANGED << request, mode, step, responses, tool_trace, agent_final_message,
                    supplier_resp, totals_supplier, fx_resp, totals_target, finished >>
    /\ UNCHANGED << supplier_vars, other_vars >>

\* Lines 920-933.
AgentReturn ==
    /\ mode = "tools-agent"
    /\ apc = "return"
    /\ finished' = Finish([ mode |-> "tools-agent", tool_trace |-> tool_trace,
                            agent_final_message |-> agent_final_message ])
    /\ apc' = "done"
    /\ UNCHANGED << request, mode, step, responses, tool_trace, agent_final_message, ext_calls,
                    supplier_resp, totals_supplier, fx_resp, totals_target,
                    webhook_result, server_memo >>
    /\ UNCHANGED << supplier_vars, other_vars >>

AgentNext ==
    AgentParse \/ DialogNext \/ AgentSupplier \/ AgentFx \/ AgentWebhook \/ AgentReturn

\* ---- initial states and specifications

SupplierIdle ==
    /\ use_printful = FALSE
    /\ api_key_set = FALSE
    /\ items = <<>>
    /\ max_suppliers_per_item = 3
    /\ spc = "idle"
    /\ printful_reason = None
    /\ tier_log = <<>>
    /\ printful_http = <<>>
    /\ tool_result = NoResult

AgentStart(m, position) ==
    /\ mode = m
    /\ apc = position
    /\ step = 0
    /\ responses = <<>>
    /\ tool_trace = <<>>
    /\ agent_final_message = ""
    /\ ext_calls = <<>>
    /\ supplier_resp = NonePayload
    /\ totals_supplier = NoTotals
    /\ fx_resp = NonePayload
    /\ totals_target = NoTotals
    /\ webhook_result = NonePayload
    /\ finished = <<>>
    /\ server_memo = <<>>

\* get_offers_for_items, for every configuration and item list.
Init ==
    /\ use_printful \in BOOLEAN
    /\ api_key_set \in BOOLEAN
    /\ items \in ItemLists
    /\ max_suppliers_per_item \in MaxSuppliersValues
    /\ spc = "start"
    /\ printful_reason = None
    /\ tier_log = <<>>
    /\ printful_http = <<>>
    /\ tool_result = NoResult
    /\ request = NoRequest
    /\ AgentStart("none", "idle")
    /\ OthersIdle

Next == TryPrintful \/ SkipPrintful \/ TryFakestore \/ DemoFallback

Spec == Init /\ [][Next]_vars

\* build_procurement_plan, for every parsed request.
PipelineInit ==
    /\ SupplierIdle
    /\ request \in ParsedRequests
    /\ AgentStart("pipeline", "parse")
    /\ OthersIdle

SpecPipeline == PipelineInit /\ [][PipelineNext]_vars

\* build_procurement_plan_tools_agent, for every parsed request.
AgentInit ==
    /\ SupplierIdle
    /\ request \in ParsedRequests
    /\ AgentStart("tools-agent", "parse")
    /\ OthersIdle

SpecAgent == AgentInit /\ [][AgentNext]_vars

\* _run_cli: the same user text given to the other builder, the MCP servers
\* answering as before.
StartToolsAgent ==
    /\ mode = "pipeline"
    /\ apc = "done"
    /\ mode' = "tools-agent"
    /\ apc' = "parse"
    /\ step' = 0
    /\ responses' = <<>>
    /\ tool_trace' = <<>>
    /\ agent_final_message' = ""
    /\ ext_calls' = <<>>
    /\ supplier_resp' = NonePayload
    /\ totals_supplier' = NoTotals
    /\ fx_resp' = NonePayload
    /\ totals_target' = NoTotals
    /\ webhook_result' = NonePayload
    /\ UNCHANGED << request, finished, server_memo >>
    /\ UNCHANGED << supplier_vars, other_vars >>

\* Both builders on one request, the language model making no tool calls.
EquivalenceNext ==
    \/ PipelineNext
    \/ StartToolsAgent
    \/ AgentParse
    \/ ModelAnswers
    \/ ChatFails
    \/ AgentSupplier
    \/ AgentFx
    \/ AgentWebhook
    \/ AgentReturn

SpecEquivalence == PipelineInit /\ [][EquivalenceNext]_vars
\* ---- fx-rates-mcp: convert_amount

\* Floats are modelled as exact fractions n/d with d > 0; what is no number
\* keeps its Python type in t.
Rat(n, d) == [t |-> "num", n |-> n, d |-> d]

NoRate == [t |-> "none", n |-> 0, d |-> 1]
NonNumeric == [t |-> "str", n |-> 0, d |-> 1]
Absent == [t |-> "absent", n |-> 0, d |-> 1]

RatMul(a, b) == Rat(a.n * b.n, a.d * b.d)
RatEq(a, b) == a.n * b.d = b.n * a.d
RatSign(a) == IF a.n > 0 THEN 1 ELSE IF a.n < 0 THEN -1 ELSE 0

FX_API_BASE_URL == "https://api.exchangerate.host"

\* _FX_FALLBACK_RATES
FX_FALLBACK_RATES ==
    [ k \in { << "USD", "EUR" >>, << "EUR", "USD" >>, << "USD", "RUB" >>,
              << "RUB", "USD" >>, << "EUR", "RUB" >>, << "RUB", "EUR" >> } |->
        CASE k = << "USD", "EUR" >> -> Rat(9, 10)
          [] k = << "EUR", "USD" >> -> Rat(111, 100)
          [] k = << "USD", "RUB" >> -> Rat(90, 1)
          [] k = << "RUB", "USD" >> -> Rat(1, 90)
          [] k = << "EUR", "RUB" >> -> Rat(98, 1)
          [] k = << "RUB", "EUR" >> -> Rat(1, 98) ]

\* What the FX API can do to GET /convert: the request raises, the status is
\* not 2xx (raise_for_status raises), or a JSON body comes back: not an
\* object, or an object with success, and with or without info and result.
JsonBody(success, info, result) ==
    [kind |-> "json", is_dict |-> TRUE, success |-> success, info |-> info,
     result |-> result]

InfoOf(has_rate, rate) == [is_dict |-> TRUE, has_rate |-> has_rate, rate |-> rate]
InfoAbsent == [is_dict |-> FALSE, has_rate |-> FALSE, rate |-> Absent]

HttpRaises == [kind |-> "exception", is_dict |-> FALSE, success |-> FALSE,
               info |-> InfoAbsent, result |-> Absent]
HttpStatusError == [kind |-> "status", is_dict |-> FALSE, success |-> FALSE,
                    info |-> InfoAbsent, result |-> Absent]
JsonNotObject == [kind |-> "json", is_dict |-> FALSE, success |-> FALSE,
                  info |-> InfoAbsent, result |-> Absent]

InfoRates == { Rat(91, 100), Rat(0, 1), Rat(-3, 2), NonNumeric }
ResultRates == { Rat(92, 100), Rat(0, 1), NonNumeric, NoRate }

FxHttpOutcomes ==
    { HttpRaises, HttpStatusError, JsonNotObject }
    \cup { JsonBody(ok, info, result) :
             ok \in BOOLEAN,
             info \in { InfoAbsent, InfoOf(FALSE, Absent) }
                      \cup { InfoOf(TRUE, r) : r \in InfoRates },
             result \in { Absent } \cup ResultRates }

\* float(x), None on TypeError or ValueError (lines 123-126, 130-133).
FloatOrNone(x) == IF x.t = "num" THEN x ELSE NoRate

\* Mutant: result is looked at before info.rate.
fetch_rate_http_result_first(outcome) ==
    IF outcome.kind # "json" THEN [raised |-> TRUE, rate |-> NoRate, data |-> Absent]
    ELSE IF ~outcome.is_dict
         THEN [raised |-> FALSE, rate |-> NoRate, data |-> Absent]
         ELSE LET from_result ==
                      IF outcome.result.t # "absent"
                      THEN FloatOrNone(outcome.result) ELSE NoRate
                  rate == IF from_result = NoRate /\ outcome.info.is_dict
                             /\ outcome.info.has_rate
                          THEN FloatOrNone(outcome.info.rate) ELSE from_result
              IN  [raised |-> FALSE, rate |-> rate, data |-> outcome]

\* _fetch_rate_http: the rate (or None) and the body (or {}); data is Absent
\* where the code returns {}.
fetch_rate_http(outcome) ==
    IF outcome.kind # "json" THEN [raised |-> TRUE, rate |-> NoRate, data |-> Absent]
    ELSE IF ~outcome.is_dict
         THEN [raised |-> FALSE, rate |-> NoRate, data |-> Absent]
         ELSE LET from_info ==
                      IF outcome.info.is_dict /\ outcome.info.has_rate
                      THEN FloatOrNone(outcome.info.rate) ELSE NoRate
                  rate == IF from_info = NoRate /\ outcome.result.t # "absent"
                          THEN FloatOrNone(outcome.result) ELSE from_info
              IN  [raised |-> FALSE, rate |-> rate, data |-> outcome]

\* Mutant: no rate of last resort for a pair the table does not have.
fallback_rate_static_only(base, quote) ==
    LET b == Upper(base)
        q == Upper(quote)
    IN  IF b = q THEN [rate |-> Rat(1, 1), provider |-> "identity"]
        ELSE IF << b, q >> \in DOMAIN FX_FALLBACK_RATES
        THEN [rate |-> FX_FALLBACK_RATES[<< b, q >>], provider |-> "fallback_static"]
        ELSE [rate |-> NoRate, provider |-> "fallback_identity"]

\* _fallback_rate
fallback_rate(base, quote) ==
    LET b == Upper(base)
        q == Upper(quote)
    IN  IF b = q THEN [rate |-> Rat(1, 1), provider |-> "identity"]
        ELSE IF << b, q >> \in DOMAIN FX_FALLBACK_RATES
        THEN [rate |-> FX_FALLBACK_RATES[<< b, q >>], provider |-> "fallback_static"]
        ELSE [rate |-> Rat(1, 1), provider |-> "fallback_identity"]

WarningUnavailable == "FX API unavailable, fallback rate used"
WarningNoRate == "FX API returned no rate, fallback rate used"

FxReturn(base, quote, amount_base, amount_quote, rate, provider, fb_used, warning, raw) ==
    [ raised |-> FALSE,
      d |-> [ base |-> base, quote |-> quote, amount_base |-> amount_base,
              amount_quote |-> amount_quote, rate |-> rate, provider |-> provider,
              fallback_used |-> fb_used, warning |-> warning, raw |-> raw ] ]

FxRaise == [raised |-> TRUE, d |-> <<>>]

\* convert_amount for base # quote, lines 213-270, given what the FX API did.
convert_via_http(amount, base, quote, outcome) ==
    LET fetched == fetch_rate_http(outcome)
        warning1 == IF fetched.raised THEN WarningUnavailable ELSE None
        raw == IF fetched.raised THEN Absent ELSE fetched.data
        fb == fallback_rate(base, quote)
        fallback_used == fetched.rate = NoRate
        rate == IF fallback_used THEN fb.rate ELSE fetched.rate
        provider == IF fallback_used THEN fb.provider ELSE FX_API_BASE_URL
        warning == IF fallback_used /\ warning1 = None THEN WarningNoRate ELSE warning1
        amount_base == Rat(amount, 1)
    IN  IF rate.t # "num" THEN FxRaise
        ELSE FxReturn(base, quote, amount_base, RatMul(amount_base, rate), rate,
                      provider, fallback_used, warning, raw)

\* Lines 197-211: the currencies are the same.
FxSameCurrency ==
    /\ fx_pc = "start"
    /\ Upper(fx_base) = Upper(fx_quote)
    /\ fx_result' = FxReturn(Upper(fx_base), Upper(fx_quote), Rat(fx_amount, 1),
                             Rat(fx_amount, 1), Rat(1, 1), "identity", FALSE, None,
                             Absent)
    /\ fx_pc' = "done"
    /\ UNCHANGED << fx_amount, fx_base, fx_quote, fx_http >>
    /\ UNCHANGED << supplier_vars, agent_vars, outside_fx >>

\* Lines 213-270: one request to the FX API, the fallback if it gave no rate,
\* and the result.
FxConvert ==
    /\ fx_pc = "start"
    /\ Upper(fx_base) # Upper(fx_quote)
    /\ \E outcome \in FxHttpOutcomes :
         /\ fx_http' = Append(fx_http, [from |-> Upper(fx_base), to |-> Upper(fx_quote),
                                        outcome |-> outcome])
         /\ fx_result' = convert_via_http(fx_amount, Upper(fx_base), Upper(fx_quote),
                                          outcome)
    /\ fx_pc' = "done"
    /\ UNCHANGED << fx_amount, fx_base, fx_quote >>
    /\ UNCHANGED << supplier_vars, agent_vars, outside_fx >>

FxAmounts == { -500, 0, 1000 }
FxBases == { "usd", "EUR", "GBP" }
FxQuotes == { "EUR", "usd", "rub" }

\* convert_amount, for every amount, pair of currencies and answer of the API.
FxInit ==
    /\ SupplierIdle
    /\ request = NoRequest
    /\ AgentStart("none", "idle")
    /\ fx_amount \in FxAmounts
    /\ fx_base \in FxBases
    /\ fx_quote \in FxQuotes
    /\ fx_pc = "start"
    /\ fx_http = <<>>
    /\ fx_result = NoFxResult
    /\ OutsideFxIdle

FxNext == FxSameCurrency \/ FxConvert

SpecFx == FxInit /\ [][FxNext]_vars


\* ---- _extract_structured_from_mcp_result called on its own

\* Longest content list of a CallToolResult.
MaxContents == 2

NoKey == [kind |-> "absent", s |-> "", d |-> <<>>]

\* A dict with the keys a tool result has, and with or without the nested
\* structuredContent and structured_content.
EnvelopeDict(nested, nested2) ==
    [ k \in {"isError"}
            \cup (IF nested.kind = "absent" THEN {} ELSE {"structuredContent"})
            \cup (IF nested2.kind = "absent" THEN {} ELSE {"structured_content"}) |->
        CASE k = "structuredContent" -> nested
          [] k = "structured_content" -> nested2
          [] OTHER -> StrPayload("false") ]

CamelPayload == [currency |-> "USD"]
SnakePayload == [currency |-> "EUR"]

EnvelopeDicts ==
    { EnvelopeDict(a, b) :
        a \in { NoKey, NonePayload, DictPayload(CamelPayload), DictPayload(<<>>),
                StrPayload("text") },
        b \in { NoKey, DictPayload(SnakePayload) } }

ContentTexts ==
    { NonePayload, StrPayload(""), StrPayload("plain text"), JsonOtherText,
      JsonObjectText(EnvelopeDict(NoKey, NoKey)),
      JsonObjectText(EnvelopeDict(DictPayload(CamelPayload), NoKey)) }

CallToolResults ==
    { CallToolResult(sc, sc2, content) :
        sc \in { NonePayload, StrPayload("text") }
               \cup { DictPayload(e) : e \in EnvelopeDicts },
        sc2 \in { NonePayload, DictPayload(EnvelopeDict(NoKey, NoKey)),
                  DictPayload(EnvelopeDict(NoKey, DictPayload(SnakePayload))) },
        content \in SeqsUpTo(ContentTexts, MaxContents) }

Returns(value) == [called |-> TRUE, raised |-> FALSE, value |-> value]

PureRaises == [called |-> TRUE, raised |-> TRUE, value |-> NonePayload]

ExtractStructured ==
    /\ pure_fn = "_extract_structured_from_mcp_result"
    /\ pure_out = NotCalled
    /\ pure_out' = Returns(extract_structured_from_mcp_result(pure_arg))
    /\ UNCHANGED << pure_fn, pure_arg >>
    /\ UNCHANGED << supplier_vars, agent_vars, outside_pure >>

\* Everything but the function called on its own is idle.
PureCall(fn) ==
    /\ SupplierIdle
    /\ request = NoRequest
    /\ AgentStart("none", "idle")
    /\ OutsidePureIdle
    /\ pure_fn = fn
    /\ pure_out = NotCalled

ExtractInit ==
    /\ PureCall("_extract_structured_from_mcp_result")
    /\ pure_arg \in CallToolResults

SpecExtract == ExtractInit /\ [][ExtractStructured]_vars

\* ---- _aggregate_totals_from_supplier_response called on its own

\* Longest list of item blocks in a supplier response.
MaxBlocks == 2

NoField == [t |-> "absent", v |-> 0]
NoneField == [t |-> "none", v |-> 0]
NonNumericField == [t |-> "str", v |-> 0]

\* One entry of the response's items: with or without "item", the item with
\* or without "quantity".
ItemBlock(has_item, quantity, offers) ==
    [ k \in {"offers"} \cup (IF has_item THEN {"item"} ELSE {}) |->
        IF k = "offers" THEN offers
        ELSE IF quantity.t = "absent" THEN [sku |-> "hoodie"]
        ELSE [sku |-> "hoodie", quantity |-> quantity] ]

ItemBlocks ==
    { ItemBlock(FALSE, NoField, <<>>),
      ItemBlock(TRUE, QInt(2), << [unit_price |-> 500] >>),
      ItemBlock(TRUE, QInt(3), <<>>),
      ItemBlock(TRUE, NonNumericField, <<>>),
      ItemBlock(TRUE, NoneField, << [unit_price |-> 500] >>),
      ItemBlock(TRUE, NoField, <<>>) }

NoCurrencyKey == "<no currency key>"

\* The dict the supplier tool answers with, each key present or not.
ResponseDict(currency, total, has_items, blocks) ==
    [ k \in {"provider"}
            \cup (IF currency = NoCurrencyKey THEN {} ELSE {"currency"})
            \cup (IF total.t = "absent" THEN {} ELSE {"total_min_cost"})
            \cup (IF has_items THEN {"items"} ELSE {}) |->
        CASE k = "currency" -> currency
          [] k = "total_min_cost" -> total
          [] k = "items" -> blocks
          [] OTHER -> "printful" ]

ResponseDicts ==
    { ResponseDict(c, t, TRUE, blocks) :
        c \in { NoCurrencyKey, None, "EUR" },
        t \in { NoField, NoneField, NonNumericField, Num(1250) },
        blocks \in SeqsUpTo(ItemBlocks, MaxBlocks) }
    \cup { ResponseDict(c, Num(1250), FALSE, <<>>) : c \in { NoCurrencyKey, "EUR" } }

SupplierResponses ==
    { StrPayload("Error calling tool 'get_offers_for_items': ..."), NonePayload }
    \cup { DictPayload(d) : d \in ResponseDicts }
    \cup { DictPayload([structuredContent |-> DictPayload(d), isError |-> FALSE]) :
             d \in ResponseDicts }
    \cup { DictPayload([structured_content |-> DictPayload(d), isError |-> FALSE]) :
             d \in ResponseDicts }

AggregateTotals ==
    /\ pure_fn = "_aggregate_totals_from_supplier_response"
    /\ pure_out = NotCalled
    /\ pure_out' = Returns(aggregate_totals_from_supplier_response(pure_arg))
    /\ UNCHANGED << pure_fn, pure_arg >>
    /\ UNCHANGED << supplier_vars, agent_vars, outside_pure >>

AggregateInit ==
    /\ PureCall("_aggregate_totals_from_supplier_response")
    /\ pure_arg \in SupplierResponses

SpecAggregate == AggregateInit /\ [][AggregateTotals]_vars

\* ---- parse_user_request: what it makes of the content the model returned

\* A key of the JSON object: missing, or present with a value that the field
\* of ParsedRequest accepts or rejects.
KeyMissing == [present |-> FALSE, valid |-> FALSE, v |-> None]
KeyValid(v) == [present |-> TRUE, valid |-> TRUE, v |-> v]
KeyInvalid == [present |-> TRUE, valid |-> FALSE, v |-> None]

\* message.content or "", by what json.loads makes of it.
NotJson == [json |-> "invalid", target_currency |-> KeyMissing, budget |-> KeyMissing,
            webhook_url |-> KeyMissing, items |-> KeyMissing]
JsonNotAnObject == [json |-> "other", target_currency |-> KeyMissing, budget |-> KeyMissing,
                    webhook_url |-> KeyMissing, items |-> KeyMissing]
JsonObject(target_currency, budget, webhook_url, its) ==
    [json |-> "object", target_currency |-> target_currency, budget |-> budget,
     webhook_url |-> webhook_url, items |-> its]

ModelContentStrings ==
    { NotJson, JsonNotAnObject }
    \cup { JsonObject(c, b, w, its) :
             c \in { KeyMissing, KeyValid("EUR"), KeyInvalid },
             b \in { KeyMissing, KeyValid("500"), KeyInvalid },
             w \in { KeyMissing, KeyValid("https://hook"), KeyInvalid },
             its \in { KeyMissing, KeyValid("one item"), KeyValid("no items"),
                       KeyInvalid } }

ParsedRequestOf(target_currency, budget, webhook_url, its) ==
    [target_currency |-> target_currency, budget |-> budget,
     webhook_url |-> webhook_url, items |-> its]

ItemsOf(v) == IF v = "one item" THEN << TheItem >> ELSE <<>>

FallbackItem ==
    [sku |-> SkuStr(<< "fallback_item" >>), quantity |-> QInt(1),
     max_unit_price |-> NoMaxPrice]

\* ParsedRequest.model_validate(data) raises ValidationError: data is no
\* object, a required key is missing, or a value is rejected.
ValidationFails(data) ==
    \/ data.json # "object"
    \/ ~data.target_currency.valid
    \/ ~data.items.valid
    \/ data.budget.present /\ ~data.budget.valid
    \/ data.webhook_url.present /\ ~data.webhook_url.valid

OptionalKey(key) == IF key.present THEN key.v ELSE None

\* Lines 463-476: the request built after a ValidationError. data.get raises
\* AttributeError when data is no dict, and ParsedRequest(...) validates
\* target_currency and budget again.
FallbackAfterValidationError(data) ==
    IF data.json # "object" THEN PureRaises
    ELSE IF data.target_currency.present /\ ~data.target_currency.valid THEN PureRaises
    ELSE IF data.budget.present /\ ~data.budget.valid THEN PureRaises
    ELSE Returns(ParsedRequestOf(IF data.target_currency.present
                                 THEN data.target_currency.v ELSE "USD",
                                 OptionalKey(data.budget), None, << FallbackItem >>))

\* parse_user_request, lines 448-476, given the content of the model's answer.
parse_content(content) ==
    IF content.json = "invalid"
    THEN Returns(ParsedRequestOf("USD", None, None, <<>>))
    ELSE IF ValidationFails(content)
    THEN FallbackAfterValidationError(content)
    ELSE Returns(ParsedRequestOf(content.target_currency.v, OptionalKey(content.budget),
                                 OptionalKey(content.webhook_url),
                                 ItemsOf(content.items.v)))

ParseUserRequest ==
    /\ pure_fn = "parse_user_request"
    /\ pure_out = NotCalled
    /\ pure_out' = parse_content(pure_arg)
    /\ UNCHANGED << pure_fn, pure_arg >>
    /\ UNCHANGED << supplier_vars, agent_vars, outside_pure >>

ParseInit ==
    /\ PureCall("parse_user_request")
    /\ pure_arg \in ModelContentStrings

SpecParse == ParseInit /\ [][ParseUserRequest]_vars

\* ---- search_products.py: the catalog search tool

MaxProducts == 3

SearchQueries ==
    { <<>>, << " ", " " >>, << "a" >>, << " ", "B", " " >>, << "a", "b" >>, << "b", "a" >> }

\* limit: Field(default=5, ge=1, le=50)
SearchLimits == { 1, 2, 50 }

CatalogTitles == { << "A", "b" >>, << " ", "b", "a" >>, << "B" >> }

\* Prices in cents; 0 is a price ProductSummary (price: gt=0) rejects.
CatalogPrices == { 0, 500, 900 }

\* A catalog: the products of the response in order, each with its position as id.
Catalogs ==
    { [i \in 1..Len(shape) |->
         [id |-> i, title |-> shape[i].title, price |-> shape[i].price]] :
      shape \in SeqsUpTo([title : CatalogTitles, price : CatalogPrices], MaxProducts) }

\* What GET {base_url}/products does: raise_for_status raises, anything else
\* raises, or response.json() gives a list of products or something else.
CatalogResponses ==
    { [kind |-> "status_error", products |-> <<>>],
      [kind |-> "exception", products |-> <<>>],
      [kind |-> "not_a_list", products |-> <<>>] }
    \cup { [kind |-> "list", products |-> c] : c \in Catalogs }

INVALID_PARAMS == 0 - 32602
INTERNAL_ERROR == 0 - 32603

McpErrorRaised(code) == [error |-> "McpError", code |-> code, items |-> <<>>]
ValidationErrorRaised == [error |-> "ValidationError", code |-> 0, items |-> <<>>]
ToolResultOf(matches) == [error |-> "", code |-> 0, items |-> matches]

\* ProductSummary(product_id=..., title=..., price=float(...), ...)
ProductSummary(product) ==
    [product_id |-> product.id, title |-> Strip(product.title), price |-> product.price]

\* Lines 155-165: the products whose stripped title contains the needle, in
\* catalog order.
RECURSIVE FilterMatches(_, _)
FilterMatches(products, needle) ==
    IF products = <<>> THEN <<>>
    ELSE LET rest == FilterMatches(Tail(products), needle)
         IN  IF Contains(needle, Lower(Strip(Head(products).title)))
             THEN << ProductSummary(Head(products)) >> \o rest
             ELSE rest

\* Mutant: the matches are left in catalog order.
KeepCatalogOrder(matches) == matches

\* matches.sort(key=lambda p: p.price): a stable sort by ascending price.
RECURSIVE SortByPrice(_)
SortByPrice(matches) ==
    IF matches = <<>> THEN <<>>
    ELSE LET sorted == SortByPrice(SubSeq(matches, 1, Len(matches) - 1))
             last == matches[Len(matches)]
             before == SelectSeq(sorted, LAMBDA m : m.price <= last.price)
             after == SelectSeq(sorted, LAMBDA m : m.price > last.price)
         IN  before \o << last >> \o after

\* matches[:limit] for the limits the tool accepts (1..50).
Truncate(matches, limit) ==
    SubSeq(matches, 1, IF Len(matches) < limit THEN Len(matches) ELSE limit)

\* Lines 84-92: an empty query is refused before the catalog is asked for.
SearchEmptyQuery ==
    /\ search_pc = "start"
    /\ Strip(search_query) = <<>>
    /\ search_pc' = "raised"
    /\ search_result' = McpErrorRaised(INVALID_PARAMS)
    /\ UNCHANGED << search_query, search_limit, search_http >>
    /\ UNCHANGED << supplier_vars, agent_vars, outside_search >>

\* Lines 94-199: the catalog is fetched, filtered, sorted and cut.  A matching
\* product whose price ProductSummary rejects raises out of the loop.
SearchCatalog ==
    /\ search_pc = "start"
    /\ Strip(search_query) # <<>>
    /\ \E response \in CatalogResponses :
         LET needle == Lower(Strip(search_query))
             matches == FilterMatches(response.products, needle)
         IN  /\ search_http' = Append(search_http, response)
             /\ IF response.kind \in {"status_error", "exception"}
                THEN /\ search_pc' = "raised"
                     /\ search_result' = McpErrorRaised(INTERNAL_ERROR)
                ELSE IF \E i \in 1..Len(matches) : matches[i].price <= 0
                THEN /\ search_pc' = "raised"
                     /\ search_result' = ValidationErrorRaised
                ELSE /\ search_pc' = "returned"
                     /\ search_result' =
                          ToolResultOf(Truncate(SortByPrice(matches), search_limit))
    /\ UNCHANGED << search_query, search_limit >>
    /\ UNCHANGED << supplier_vars, agent_vars, outside_search >>

SearchInit ==
    /\ SupplierIdle
    /\ request = NoRequest
    /\ AgentStart("none", "idle")
    /\ OutsideSearchIdle
    /\ search_query \in SearchQueries
    /\ search_limit \in SearchLimits
    /\ search_pc = "start"
    /\ search_http = <<>>
    /\ search_result = NoSearchResult

SearchNext == SearchEmptyQuery \/ SearchCatalog

SpecSearch == SearchInit /\ [][SearchNext]_vars

\* ---- web_app.py: /api/chat requests served by one event loop

MaxRequests == 3

ChatRequests == 1..MaxRequests

\* req.conversation_id: missing (None), or an id the store never held.
NoConversationId == 0
UnknownConversationId == MaxRequests + 1

\* str(uuid4()): an id nobody has seen before.
uuid4 == uuids_drawn + 1

UserMessage(r) == [role |-> "user", content |-> << "message", r >>]
AssistantMessage(r) == [role |-> "assistant", content |-> << "summary", r >>]

\* Mutant: only the summary is appended.
ExchangeSummaryOnly(r) == << AssistantMessage(r) >>

\* Lines 636-637: the two messages history.append adds.
Exchange(r) == << UserMessage(r), AssistantMessage(r) >>

\* Lines 619-630, up to the first await: conv_id is settled, a missing or
\* unknown one replaced by a fresh id with an empty history, and the plan
\* builder is started.
ChatReceive(r) ==
    /\ chat_pc[r] = "idle"
    /\ \E conversation_id \in {NoConversationId, UnknownConversationId}
                              \cup DOMAIN conversations :
         /\ chat_req' = [chat_req EXCEPT ![r] = conversation_id]
         /\ IF conversation_id = NoConversationId
               \/ conversation_id \notin DOMAIN conversations
            THEN /\ chat_conv_id' = [chat_conv_id EXCEPT ![r] = uuid4]
                 /\ conversations' = DictPut(conversations, uuid4, <<>>)
                 /\ uuids_drawn' = uuids_drawn + 1
            ELSE /\ chat_conv_id' = [chat_conv_id EXCEPT ![r] = conversation_id]
                 /\ UNCHANGED << conversations, uuids_drawn >>
    /\ chat_pc' = [chat_pc EXCEPT ![r] = "plan"]
    /\ UNCHANGED chat_response
    /\ UNCHANGED << supplier_vars, agent_vars, outside_web >>

\* Lines 627-633: the plan builder returned and summarize_plan_for_user is
\* awaited.
ChatPlanBuilt(r) ==
    /\ chat_pc[r] = "plan"
    /\ chat_pc' = [chat_pc EXCEPT ![r] = "summary"]
    /\ UNCHANGED << conversations, uuids_drawn, chat_req, chat_conv_id, chat_response >>
    /\ UNCHANGED << supplier_vars, agent_vars, outside_web >>

\* The plan builder or the summary raised: the request ends with an error.
ChatRaises(r) ==
    /\ chat_pc[r] \in {"plan", "summary"}
    /\ chat_pc' = [chat_pc EXCEPT ![r] = "failed"]
    /\ UNCHANGED << conversations, uuids_drawn, chat_req, chat_conv_id, chat_response >>
    /\ UNCHANGED << supplier_vars, agent_vars, outside_web >>

\* Lines 633-645: the summary returned; the exchange is appended to the list
\* the store holds for conv_id (history is that list) and the response is sent.
ChatSummarised(r) ==
    /\ chat_pc[r] = "summary"
    /\ conversations' = [conversations EXCEPT ![chat_conv_id[r]] = @ \o Exchange(r)]
    /\ chat_response' = [chat_response EXCEPT ![r] = chat_conv_id[r]]
    /\ chat_pc' = [chat_pc EXCEPT ![r] = "done"]
    /\ UNCHANGED << uuids_drawn, chat_req, chat_conv_id >>
    /\ UNCHANGED << supplier_vars, agent_vars, outside_web >>

WebInit ==
    /\ SupplierIdle
    /\ request = NoRequest
    /\ AgentStart("none", "idle")
    /\ OutsideWebIdle
    /\ conversations = <<>>
    /\ uuids_drawn = 0
    /\ chat_pc = [r \in ChatRequests |-> "idle"]
    /\ chat_req = [r \in ChatRequests |-> NoConversationId]
    /\ chat_conv_id = [r \in ChatRequests |-> NoConversationId]
    /\ chat_response = [r \in ChatRequests |-> NoConversationId]

WebNext ==
    \E r \in ChatRequests :
        ChatReceive(r) \/ ChatPlanBuilt(r) \/ ChatRaises(r) \/ ChatSummarised(r)

SpecWeb == WebInit /\ [][WebNext]_vars

\* ------------------------------------------------------------------ claims

Structured == tool_result.structuredContent

Returned == spc = "done"

Called(tier, outcome) ==
    \E i \in DOMAIN tier_log : tier_log[i] = [tier |-> tier, outcome |-> outcome]

TierRank(tier) ==
    CASE tier = "printful" -> 1 [] tier = "fakestoreapi" -> 2 [] tier = "demo" -> 3

\* C1: the providers are tried in the order Printful, fakestoreapi, demo.
\* Printful is tried only with USE_PRINTFUL true and a key set; a later tier
\* is reached only after every earlier tier tried has raised (so fakestoreapi
\* only when Printful was skipped or raised, the demo only after fakestoreapi
\* raised); and the provider of the result is the tier whose call returned.
C1_CascadeOrder ==
    /\ \A i \in DOMAIN tier_log :
         /\ tier_log[i].tier = "printful" => use_printful /\ api_key_set
         /\ tier_log[i].tier = "demo" => Called("fakestoreapi", "raised")
         /\ \A j \in DOMAIN tier_log :
              j < i => /\ TierRank(tier_log[j].tier) < TierRank(tier_log[i].tier)
                       /\ tier_log[j].outcome = "raised"
    /\ Returned =>
         /\ Structured.provider = "printful" <=> Called("printful", "returned")
         /\ Structured.provider = "fakestoreapi" <=> Called("fakestoreapi", "returned")
         /\ Structured.provider = "demo_fallback" <=>
              /\ Called("demo", "returned")
              /\ ~Called("printful", "returned")
              /\ Called("fakestoreapi", "raised")
         /\ Structured.provider \in {"printful", "fakestoreapi", "demo_fallback"}

\* C1 witness: the whole cascade was walked: Printful raised, fakestoreapi
\* raised and the demo structure was returned.
C1_Witness ==
    /\ Returned
    /\ Structured.provider = "demo_fallback"
    /\ Len(tier_log) = 3
    /\ Called("printful", "raised")

StructuredKeys ==
    { "currency", "items", "total_min_cost", "unavailable_skus", "resolved_variants",
      "provider", "fallback_used", "reason" }

\* C2: for every list of item dicts and every outcome of the providers the
\* tool never raises, and what it returns is an envelope with isError = False
\* whose structuredContent has the eight keys.
C2_NeverRaises ==
    /\ spc # "raised"
    /\ Returned => /\ tool_result.isError = FALSE
                   /\ DOMAIN Structured = StructuredKeys

LookedUp == { i \in DOMAIN printful_http : printful_http[i] # "skipped" }

\* C3: when Printful is enabled and configured and every HTTP request to it
\* fails, the result does not come from Printful: it has provider
\* 'fakestoreapi' and fallback_used = True when fakestoreapi answers.
C3_PrintfulDownFallsBack ==
    ( /\ Returned
      /\ Called("printful", "returned") \/ Called("printful", "raised")
      /\ LookedUp # {}
      /\ \A i \in LookedUp : printful_http[i] = "http_error" )
    => /\ Structured.provider # "printful"
       /\ Called("fakestoreapi", "returned") =>
            Structured.provider = "fakestoreapi" /\ Structured.fallback_used

DemoReturned == Returned /\ Structured.provider = "demo_fallback"

DemoShape ==
    /\ Structured.total_min_cost = 0
    /\ Structured.fallback_used = TRUE
    /\ Structured.resolved_variants = <<>>
    /\ Len(Structured.items) = Len(items)
    /\ \A i \in DOMAIN items :
         Structured.items[i].item = items[i] /\ Structured.items[i].offers = <<>>

RawSkuNonEmpty(item) == item.sku.t = "str" /\ item.sku.v # <<>>

StrippedSkuNonEmpty(item) ==
    item.sku.t = "str" /\ \E k \in DOMAIN item.sku.v : item.sku.v[k] # " "

\* The skus as given of the items whose sku is a non-empty string, in order.
RECURSIVE RawSkus(_)
RawSkus(its) ==
    IF its = <<>> THEN <<>>
    ELSE (IF RawSkuNonEmpty(Head(its)) THEN << Head(its).sku.v >> ELSE <<>>)
         \o RawSkus(Tail(its))

\* The stripped skus of the items whose sku has a non-whitespace character.
RECURSIVE StrippedSkus(_)
StrippedSkus(its) ==
    IF its = <<>> THEN <<>>
    ELSE (IF StrippedSkuNonEmpty(Head(its)) THEN << Strip(Head(its).sku.v) >> ELSE <<>>)
         \o StrippedSkus(Tail(its))

\* C4 as stated: in the demo fallback total_min_cost = 0, fallback_used =
\* True, resolved_variants is empty, there is one item block per input item
\* with no offers, and unavailable_skus lists the sku of every input item
\* whose sku is non-empty.
C4_DemoListsNonEmptySkus ==
    DemoReturned =>
        /\ DemoShape
        /\ Structured.unavailable_skus = RawSkus(items)

\* C4 amended: as above, but unavailable_skus lists, in input order, the sku
\* with surrounding whitespace removed of every input item whose sku has a
\* character other than whitespace; items whose sku is missing, empty or
\* only whitespace are left out.
C4_DemoListsStrippedSkus ==
    DemoReturned =>
        /\ DemoShape
        /\ Structured.unavailable_skus = StrippedSkus(items)
        /\ \A k \in DOMAIN Structured.unavailable_skus :
             LET s == Structured.unavailable_skus[k]
             IN  s # <<>> /\ s[1] # " " /\ s[Len(s)] # " "

\* C4 witness: a demo result for two items, one with a padded sku and one with
\* a sku of whitespace only.
C4_Witness ==
    /\ DemoReturned
    /\ \E i, j \in DOMAIN items :
         /\ items[i].sku = SkuStr(<<" ", "a", " ">>)
         /\ items[j].sku = SkuStr(<<" ">>)
    /\ Structured.unavailable_skus = << <<"a">> >>


\* ------------------------------------------- claims about the plan builders

CallsOf(calls, tool) == SelectSeq(calls, LAMBDA c : c.tool = tool)

CallRank(call) ==
    CASE call.tool = "chat_completion (parse)" -> 1
      [] call.tool = "get_offers_for_items" -> 2
      [] call.tool = "convert_amount" -> 3
      [] call.tool = "send_procurement_plan_webhook" -> 4
      [] OTHER -> 0

\* C5: in pipeline mode the external calls are made in one fixed order: the
\* LLM parse, then exactly one get_offers_for_items call, then at most one
\* convert_amount call, then at most one webhook call, then the plan is
\* returned; no call is made by anyone but the plan builder, the conversion
\* never precedes the supplier call and the webhook never precedes the
\* conversion.
C5_FixedOrder ==
    mode = "pipeline" =>
      /\ \A i \in DOMAIN ext_calls :
           /\ ext_calls[i].by = Builder
           /\ CallRank(ext_calls[i]) >= 1
           /\ \A j \in DOMAIN ext_calls :
                i < j => CallRank(ext_calls[i]) < CallRank(ext_calls[j])
      /\ ext_calls # <<>> => ext_calls[1] = ParseCall
      /\ Len(ext_calls) >= 2 => ext_calls[2].tool = "get_offers_for_items"
      /\ apc = "supplier" => ext_calls = << ParseCall >>
      /\ apc = "fx" => Len(ext_calls) = 2
      /\ apc = "done" =>
           /\ Len(finished) = 1
           /\ finished[1].calls = ext_calls
           /\ Len(CallsOf(ext_calls, "get_offers_for_items")) = 1
           /\ Len(CallsOf(ext_calls, "convert_amount")) <= 1
           /\ Len(CallsOf(ext_calls, "send_procurement_plan_webhook")) <= 1

\* C5 witness: a plan was returned after all four calls.
C5_Witness ==
    /\ mode = "pipeline"
    /\ apc = "done"
    /\ Len(ext_calls) = 4
    /\ ext_calls[3].tool = "convert_amount"
    /\ ext_calls[4].tool = "send_procurement_plan_webhook"

Failed(tool) == tool \in DOMAIN server_memo /\ server_memo[tool].out = McpRaised

PlanKeys ==
    { "request", "supplier_offers", "totals_supplier_currency",
      "totals_target_currency", "fx", "webhook_result", "_meta" }

\* C6: a failing MCP call never aborts build_procurement_plan: once the
\* request is parsed nothing raises and every position has a next step up to
\* the return of a plan with the seven keys; a failed call leaves the string
\* "Error calling tool '<name>': ..." as its result, and a failed supplier call
\* gives totals of currency USD, total_net 0 and total_items 0.
C6_FailuresNeverAbort ==
    mode = "pipeline" =>
      /\ apc # "raised"
      /\ apc \in {"supplier", "fx", "webhook", "return"} => ENABLED PipelineNext
      /\ Failed("get_offers_for_items") =>
           /\ supplier_resp = ErrorCallingTool("get_offers_for_items")
           /\ totals_supplier = Totals("USD", 0, 0)
           /\ ~Failed("convert_amount")
      /\ Failed("convert_amount") =>
           /\ fx_resp = ErrorCallingTool("convert_amount")
           /\ totals_target = Totals(request.target_currency, totals_supplier.total_net,
                                     totals_supplier.total_items)
      /\ Failed("send_procurement_plan_webhook") =>
           webhook_result = ErrorCallingTool("send_procurement_plan_webhook")
      /\ apc = "done" =>
           /\ Len(finished) = 1
           /\ DOMAIN finished[1].plan = PlanKeys
           /\ finished[1].plan =
                FinalPlan(request, supplier_resp, totals_supplier, totals_target,
                          fx_resp, webhook_result, [mode |-> "pipeline"])

\* C6 witness: a plan was returned although the conversion and the webhook
\* call both failed.
C6_Witness ==
    /\ mode = "pipeline"
    /\ apc = "done"
    /\ Failed("convert_amount")
    /\ Failed("send_procurement_plan_webhook")

\* C6 second case: a plan was returned although the supplier call failed.
C6_SupplierFailedWitness ==
    /\ mode = "pipeline"
    /\ apc = "done"
    /\ Failed("get_offers_for_items")

PastDialog == apc \in {"supplier", "fx", "webhook", "return", "done"}

IsAuto(inv) == inv.name \in {"supplier_get_offers (auto)", "fx_convert_amount (auto)"}

DialogTrace == SelectSeq(tool_trace, LAMBDA inv : ~IsAuto(inv))

AutoEntries(name) == SelectSeq(tool_trace, LAMBDA inv : inv.name = name)

ToolResponses == SelectSeq(responses, LAMBDA r : r.tool_calls)

\* C7: _run_tools_agent_dialog makes at most max_steps chat-completion
\* requests and always has a next step until it returns; only its last
\* response can be one without tool_calls, whose content (or "" for None) is
\* the final message; after max_steps responses with tool_calls it returns ""
\* and the tool trace accumulated, one entry at least per response. (A chat
\* request or a tool argument that raises ends the dialog earlier.)
C7_DialogBounded ==
    mode = "tools-agent" =>
      /\ step <= max_steps
      /\ Len(CallsOf(ext_calls, "chat_completion (tools)")) = step
      /\ Len(responses) <= step
      /\ apc = "dialog" => /\ ENABLED DialogNext
                           /\ Len(responses) = step
                           /\ ToolResponses = responses
      /\ \A i \in DOMAIN responses :
           ~responses[i].tool_calls => i = Len(responses) /\ apc # "dialog"
      /\ apc # "raised" => Len(DialogTrace) >= Len(ToolResponses)
      /\ PastDialog =>
           IF ToolResponses = responses
           THEN Len(responses) = max_steps /\ agent_final_message = ""
           ELSE LET content == responses[Len(responses)].content
                IN  agent_final_message = IF content = None THEN "" ELSE content
      /\ apc = "done" =>
           /\ finished[1].plan._meta.agent_final_message = agent_final_message
           /\ finished[1].plan._meta.tool_trace = tool_trace

\* C7 witness: a plan was returned after max_steps responses that all asked
\* for tools.
C7_Witness ==
    /\ mode = "tools-agent"
    /\ apc = "done"
    /\ Len(responses) = max_steps
    /\ ToolResponses = responses
    /\ Len(DialogTrace) >= max_steps

\* C7 second case: the dialog ended at a response with content.
C7_AnswerWitness ==
    /\ mode = "tools-agent"
    /\ apc = "done"
    /\ Len(responses) = 2
    /\ agent_final_message = "final answer"

PastSupplier == apc \in {"fx", "webhook", "return", "done"}

DialogCalled(name) == \E i \in DOMAIN DialogTrace : DialogTrace[i].name = name

\* The result of the last call of a tool in the dialog.
LastDialogResult(name) ==
    LET at == { i \in DOMAIN DialogTrace : DialogTrace[i].name = name }
    IN  DialogTrace[CHOOSE i \in at : \A j \in at : j <= i].result

BuilderCalls(tool) ==
    SelectSeq(ext_calls, LAMBDA c : c.by = Builder /\ c.tool = tool)

\* C8: in tools-agent mode supplier_offers is never null. Without a
\* supplier_get_offers call in the dialog the plan builder calls the supplier
\* tool exactly once, with the parsed items, and records the call in
\* tool_trace as 'supplier_get_offers (auto)'; with one, it makes no supplier
\* call of its own and uses the result of the last one.
C8_SupplierOffersNeverNull ==
    mode = "tools-agent" /\ PastSupplier =>
      /\ supplier_resp.kind # "none"
      /\ apc = "done" => finished[1].plan.supplier_offers = supplier_resp
      /\ IF DialogCalled("supplier_get_offers")
         THEN /\ BuilderCalls("get_offers_for_items") = <<>>
              /\ AutoEntries("supplier_get_offers (auto)") = <<>>
              /\ supplier_resp = LastDialogResult("supplier_get_offers")
         ELSE /\ BuilderCalls("get_offers_for_items") =
                   << ExtCall(Builder, "get_offers_for_items",
                              SupplierArgs(ItemsPayload(request))) >>
              /\ AutoEntries("supplier_get_offers (auto)") =
                   << ToolInvocation("supplier_get_offers (auto)",
                                     SupplierArgs(ItemsPayload(request)),
                                     supplier_resp) >>

\* C8 witness: a plan was returned whose supplier_offers come from the plan
\* builder's own call, the dialog having called other tools only.
C8_Witness ==
    /\ mode = "tools-agent"
    /\ apc = "done"
    /\ DialogTrace # <<>>
    /\ ~DialogCalled("supplier_get_offers")
    /\ finished[1].plan.supplier_offers.kind = "dict"

\* C8 second case: the dialog called the supplier tool twice with different
\* results.
C8_LastOfTwoWitness ==
    /\ mode = "tools-agent"
    /\ apc = "done"
    /\ Len(DialogTrace) = 2
    /\ DialogTrace[1].name = "supplier_get_offers"
    /\ DialogTrace[2].name = "supplier_get_offers"
    /\ DialogTrace[1].result # DialogTrace[2].result

PastFx == apc \in {"webhook", "return", "done"}

\* The fx result is for the pair the plan needs.
ForNeededPair(fx) ==
    /\ fx.kind = "dict"
    /\ Upper(Get(fx.d, "base", "")) = Upper(totals_supplier.currency)
    /\ Upper(Get(fx.d, "quote", "")) = Upper(request.target_currency)

NeededFxCall ==
    ExtCall(Builder, "convert_amount",
            FxArgs(totals_supplier.total_net, totals_supplier.currency,
                   request.target_currency))

\* C9: in tools-agent mode, when a conversion is needed, the last
\* fx_convert_amount result of the dialog gives totals_target_currency only if
\* it is for the needed pair (base the supplier's currency, quote the target
\* currency); otherwise the plan builder makes its own convert_amount call
\* for the supplier total and records it as 'fx_convert_amount (auto)'.
C9_FxOnlyForNeededPair ==
    mode = "tools-agent" /\ PastFx /\ NeedFx(totals_supplier, request) =>
      IF DialogCalled("fx_convert_amount")
         /\ ForNeededPair(LastDialogResult("fx_convert_amount"))
      THEN /\ fx_resp = LastDialogResult("fx_convert_amount")
           /\ BuilderCalls("convert_amount") = <<>>
      ELSE /\ BuilderCalls("convert_amount") = << NeededFxCall >>
           /\ AutoEntries("fx_convert_amount (auto)") =
                << ToolInvocation("fx_convert_amount (auto)", NeededFxCall.args,
                                  fx_resp) >>

\* The state C9 fails in: a conversion from USD to EUR is needed, the dialog
\* converted USD to GBP, and the plan was returned with that result as fx
\* and its amount as the total in EUR.
C9_WrongPairUsed ==
    /\ mode = "tools-agent"
    /\ apc = "done"
    /\ NeedFx(totals_supplier, request)
    /\ fx_resp.kind = "dict"
    /\ Upper(Get(fx_resp.d, "quote", "")) # Upper(request.target_currency)
    /\ BuilderCalls("convert_amount") = <<>>
    /\ finished[1].plan.totals_target_currency =
         Totals(request.target_currency, Get(fx_resp.d, "amount_quote", Num(0)).v,
                totals_supplier.total_items)

McpCalls(calls) == SelectSeq(calls, LAMBDA c : CallRank(c) >= 2)

SharedPlanKeys == PlanKeys \ {"_meta"}

Ran(i, m) == Len(finished) >= i /\ finished[i].mode = m

NoModelToolCalls(plan) ==
    \A i \in DOMAIN plan._meta.tool_trace : IsAuto(plan._meta.tool_trace[i])

\* C10: for the same parsed request and the same answers of the MCP servers,
\* when the model makes no tool calls, the tools-agent builder makes the same
\* sequence of MCP calls as the pipeline and returns a plan with the same
\* keys and the same request, supplier_offers, totals_supplier_currency,
\* totals_target_currency, fx and webhook_result.
C10_SameAsPipeline ==
    /\ (mode = "tools-agent" /\ DialogTrace = <<>> /\ apc \in {"return", "done"}) =>
         McpCalls(ext_calls) = McpCalls(finished[1].calls)
    /\ (Ran(1, "pipeline") /\ Ran(2, "tools-agent") /\ NoModelToolCalls(finished[2].plan)) =>
         /\ McpCalls(finished[2].calls) = McpCalls(finished[1].calls)
         /\ DOMAIN finished[2].plan = DOMAIN finished[1].plan
         /\ \A k \in SharedPlanKeys : finished[2].plan[k] = finished[1].plan[k]
         /\ finished[2].plan._meta.mode = "tools-agent"
         /\ finished[1].plan._meta.mode = "pipeline"

\* C10 witness: both builders returned a plan with a conversion and a
\* webhook result.
C10_Witness ==
    /\ Ran(1, "pipeline")
    /\ Ran(2, "tools-agent")
    /\ Len(McpCalls(finished[2].calls)) = 3
    /\ finished[2].plan.fx.kind = "dict"
    /\ finished[2].plan.webhook_result.kind = "dict"

\* ---------------------------------------------- claims about convert_amount

FxDone == fx_pc = "done"

FxKeys ==
    { "base", "quote", "amount_base", "amount_quote", "rate", "provider",
      "fallback_used", "warning", "raw" }

\* C11: convert_amount never raises: whatever the FX HTTP request does
\* (exception, non-2xx status, success = false, no numeric rate, a rate) it
\* returns a result with the nine keys, base and quote upper-cased, and
\* amount_quote = amount_base * rate.
C11_ConvertNeverRaises ==
    FxDone =>
      /\ ~fx_result.raised
      /\ DOMAIN fx_result.d = FxKeys
      /\ fx_result.d.base = Upper(fx_base)
      /\ fx_result.d.quote = Upper(fx_quote)
      /\ fx_result.d.amount_base = Rat(fx_amount, 1)
      /\ fx_result.d.rate.t = "num"
      /\ RatEq(fx_result.d.amount_quote,
               RatMul(fx_result.d.amount_base, fx_result.d.rate))

\* C11 witness: the request got a non-2xx status for a pair the static table
\* does not have, and a result was returned.
C11_Witness ==
    /\ FxDone
    /\ Len(fx_http) = 1
    /\ fx_http[1].outcome = HttpStatusError
    /\ << Upper(fx_base), Upper(fx_quote) >> \notin DOMAIN FX_FALLBACK_RATES
    /\ ~fx_result.raised

\* The numeric rate in the answer of the FX API, info.rate before result.
ApiRate(outcome) ==
    IF outcome.kind # "json" \/ ~outcome.is_dict THEN NoRate
    ELSE IF outcome.info.is_dict /\ outcome.info.has_rate /\ outcome.info.rate.t = "num"
    THEN outcome.info.rate
    ELSE IF outcome.result.t = "num" THEN outcome.result
    ELSE NoRate

\* C12: the rate is picked by tier and the tier is reported truthfully: equal
\* currencies give rate 1, provider 'identity', fallback_used False and no
\* HTTP request; else a numeric rate of the API (info.rate before result)
\* gives provider FX_API_BASE_URL, fallback_used False, warning None; else
\* the static table gives 'fallback_static'; else rate 1 with
\* 'fallback_identity'; warning is non-null exactly when fallback_used.
C12_TierReportedTruthfully ==
    FxDone /\ ~fx_result.raised =>
      LET d == fx_result.d
          pair == << Upper(fx_base), Upper(fx_quote) >>
      IN  /\ (d.warning # None) <=> d.fallback_used
          /\ IF pair[1] = pair[2]
             THEN /\ d.rate = Rat(1, 1)
                  /\ d.provider = "identity"
                  /\ ~d.fallback_used
                  /\ fx_http = <<>>
             ELSE /\ Len(fx_http) = 1
                  /\ fx_http[1].from = pair[1]
                  /\ fx_http[1].to = pair[2]
                  /\ LET api == ApiRate(fx_http[1].outcome)
                     IN  IF api # NoRate
                         THEN /\ d.rate = api
                              /\ d.provider = FX_API_BASE_URL
                              /\ ~d.fallback_used
                              /\ d.warning = None
                         ELSE IF pair \in DOMAIN FX_FALLBACK_RATES
                         THEN /\ d.rate = FX_FALLBACK_RATES[pair]
                              /\ d.provider = "fallback_static"
                              /\ d.fallback_used
                         ELSE /\ d.rate = Rat(1, 1)
                              /\ d.provider = "fallback_identity"
                              /\ d.fallback_used

\* C12 witness: the API answered with info.rate 0.91 and result 0.92, and the
\* rate returned is 0.91.
C12_Witness ==
    /\ FxDone
    /\ Len(fx_http) = 1
    /\ fx_http[1].outcome.info = InfoOf(TRUE, Rat(91, 100))
    /\ fx_http[1].outcome.result = Rat(92, 100)
    /\ fx_result.d.rate = Rat(91, 100)

\* C13: every result meets the constraints of ConvertAmountResponse: rate > 0,
\* amount_base >= 0 and amount_quote >= 0, for every amount and every answer
\* of the FX API.
C13_ResponseConstraints ==
    FxDone /\ ~fx_result.raised =>
      /\ RatSign(fx_result.d.rate) > 0
      /\ RatSign(fx_result.d.amount_base) >= 0
      /\ RatSign(fx_result.d.amount_quote) >= 0

\* A state C13 fails in: the API answered with a rate of 0 and it was returned.
C13_ZeroRateReturned ==
    /\ FxDone
    /\ fx_amount >= 0
    /\ fx_result.d.rate = Rat(0, 1)
    /\ fx_result.d.provider = FX_API_BASE_URL

\* ------------------------------- claims about the functions of src/agent/main.py

Called14 == pure_fn = "_extract_structured_from_mcp_result" /\ pure_out.called

\* The nested structuredContent or structured_content dict of a dict when
\* there is one, else the dict.
NestedOrItself(dict) ==
    LET a == Get(dict, "structuredContent", NonePayload)
        b == Get(dict, "structured_content", NonePayload)
    IN  IF a.kind = "dict" THEN DictPayload(a.d)
        ELSE IF b.kind = "dict" THEN DictPayload(b.d)
        ELSE DictPayload(dict)

JsonObjectEntries(content) == { i \in DOMAIN content : content[i].kind = "dict" }

\* What the precedence of C14 gives for a result.
ExpectedStructured(result) ==
    IF result.structuredContent.kind = "dict"
    THEN NestedOrItself(result.structuredContent.d)
    ELSE IF result.structured_content.kind = "dict"
    THEN NestedOrItself(result.structured_content.d)
    ELSE IF JsonObjectEntries(result.content) # {}
    THEN LET first == CHOOSE i \in JsonObjectEntries(result.content) :
                        \A j \in JsonObjectEntries(result.content) : i <= j
         IN  NestedOrItself(result.content[first].d)
    ELSE IF result.content # <<>> /\ result.content[1].kind \in {"str", "json"}
            /\ result.content[1].s # ""
    THEN StrPayload(result.content[1].s)
    ELSE DictPayload(<<>>)

SamePayload(p, q) == p.kind = q.kind /\ p.s = q.s /\ DOMAIN p.d = DOMAIN q.d /\ p.d = q.d

\* C14: _extract_structured_from_mcp_result never raises and resolves the
\* envelope by strict precedence: a dict in structuredContent (its nested
\* structuredContent / structured_content dict when present, else itself);
\* else a dict in structured_content, handled the same; else the first
\* content entry whose text is a JSON object, unwrapped the same; else the
\* text of the first content entry if non-empty; else the empty dict.
C14_StrictPrecedence ==
    Called14 =>
      /\ ~pure_out.raised
      /\ SamePayload(pure_out.value, ExpectedStructured(pure_arg))

\* A state C14 fails in: structuredContent holds an empty nested
\* structuredContent dict and the whole outer dict was returned.
C14_EmptyNestedDictSkipped ==
    /\ Called14
    /\ pure_arg.structuredContent = DictPayload(EnvelopeDict(DictPayload(<<>>), NoKey))
    /\ pure_out.value = pure_arg.structuredContent

Called15 == pure_fn = "_aggregate_totals_from_supplier_response" /\ pure_out.called

\* The dict the totals are read from: the response or what it wraps.
CleanResponse(resp) ==
    IF "structuredContent" \in DOMAIN resp.d /\ resp.d.structuredContent.kind = "dict"
    THEN resp.d.structuredContent.d
    ELSE IF "structured_content" \in DOMAIN resp.d
            /\ resp.d.structured_content.kind = "dict"
    THEN resp.d.structured_content.d
    ELSE resp.d

\* item.quantity of a block, 0 for a missing or non-numeric one.
BlockQuantity(block) ==
    IF "item" \in DOMAIN block /\ "quantity" \in DOMAIN block.item
       /\ block.item.quantity.t = "int"
    THEN block.item.quantity.v ELSE 0

RECURSIVE QuantitySum(_, _)
QuantitySum(blocks, n) ==
    IF n = 0 THEN 0 ELSE BlockQuantity(blocks[n]) + QuantitySum(blocks, n - 1)

Called19 == pure_fn = "parse_user_request" /\ pure_out.called

\* C19: parse_user_request returns a ParsedRequest without raising for every
\* content: content that is no JSON gives target_currency 'USD', no budget, no
\* webhook_url and no items; JSON that fails the validation of ParsedRequest
\* (JSON that is no object included) gives a request with the single item
\* 'fallback_item', quantity 1, and webhook_url null.
C19_ParseNeverRaises ==
    Called19 =>
      /\ ~pure_out.raised
      /\ pure_arg.json = "invalid" =>
           pure_out.value = ParsedRequestOf("USD", None, None, <<>>)
      /\ pure_arg.json # "invalid" /\ ValidationFails(pure_arg) =>
           /\ pure_out.value.items = << FallbackItem >>
           /\ pure_out.value.webhook_url = None

\* A state C19 fails in: the content was JSON but no object, and the call
\* raised.
C19_NonObjectRaises ==
    /\ Called19
    /\ pure_arg = JsonNotAnObject
    /\ pure_out.raised

\* ------------------------------------------- claims about the supplier's total

\* unit_price * quantity of the best (first) offer of a block, 0 for a block
\* without offers.
BestOfferCost(block) ==
    IF block.offers = <<>> THEN 0
    ELSE block.offers[1].unit_price * IntOrZero(block.item.quantity).v

RECURSIVE BestOffersCost(_, _)
BestOffersCost(blocks, n) ==
    IF n = 0 THEN 0 ELSE BestOfferCost(blocks[n]) + BestOffersCost(blocks, n - 1)

\* C16: total_min_cost returned by get_offers_for_items is the sum, over the
\* items for which an offer was found, of the best offer's unit_price times the
\* requested quantity; it is never negative, and it is 0 when no item has an
\* offer.
C16_TotalIsSumOfBestOffers ==
    Returned =>
      /\ Structured.total_min_cost = BestOffersCost(Structured.items, Len(Structured.items))
      /\ Structured.total_min_cost >= 0
      /\ (\A i \in 1..Len(Structured.items) : Structured.items[i].offers = <<>>) =>
           Structured.total_min_cost = 0

\* A state C16 fails in: max_suppliers_per_item = 0 left every item without an
\* offer, and the total still counts the positions.
C16_TotalWithoutOffers ==
    /\ Returned
    /\ max_suppliers_per_item = 0
    /\ \A i \in 1..Len(Structured.items) : Structured.items[i].offers = <<>>
    /\ Structured.total_min_cost > 0

\* ----------------------------------------------- claims about search_products

\* The catalog the search was answered from.
SearchedCatalog == search_http[1].products

\* The positions of the catalog products whose title contains the trimmed
\* query, case ignored.
Matching ==
    { i \in 1..Len(SearchedCatalog) :
        Contains(Lower(Strip(search_query)), Lower(SearchedCatalog[i].title)) }

ReturnedIds == { search_result.items[k].product_id : k \in 1..Len(search_result.items) }

C17_EmptyQueryWitness ==
    /\ search_pc = "raised"
    /\ search_query = << " ", " " >>
    /\ search_result = McpErrorRaised(INVALID_PARAMS)
    /\ search_http = <<>>

\* ------------------------------------------------ claims about the web app

\* The requests whose exchange a history holds, in order.
Completed(c) == { r \in ChatRequests : chat_pc[r] = "done" /\ chat_conv_id[r] = c }

WellFormed(c) ==
    LET history == conversations[c]
    IN  /\ Len(history) % 2 = 0
        /\ \A k \in 1..Len(history) :
             history[k].role = IF k % 2 = 1 THEN "user" ELSE "assistant"
        /\ \A k \in 1..(Len(history) \div 2) :
             \E r \in Completed(c) : /\ history[2 * k - 1] = UserMessage(r)
                                     /\ history[2 * k] = AssistantMessage(r)
        /\ Len(history) = 2 * Cardinality(Completed(c))
        /\ \A r \in Completed(c) : \E k \in 1..Len(history) : history[k] = UserMessage(r)

\* C18: under any interleaving of /api/chat requests every history has even
\* length, alternates user, assistant from user on, and holds for each
\* completed request exactly its own user message immediately followed by
\* its own summary; a request whose plan building or summarisation raises
\* leaves every history unchanged; a request with a missing or unknown
\* conversation_id gets a fresh id with an empty history; the conversation_id
\* returned is a key of the store.
C18_HistoryWellFormed ==
    [][ /\ \A c \in DOMAIN conversations' : WellFormed(c)'
        /\ \A r \in ChatRequests :
             /\ chat_pc[r] # "failed" /\ chat_pc'[r] = "failed" =>
                  conversations' = conversations
             /\ chat_pc[r] # "done" /\ chat_pc'[r] = "done" =>
                  /\ chat_response'[r] \in DOMAIN conversations'
                  /\ conversations'[chat_conv_id[r]] =
                       conversations[chat_conv_id[r]] \o << UserMessage(r), AssistantMessage(r) >>
                  /\ \A c \in DOMAIN conversations :
                       c # chat_conv_id[r] => conversations'[c] = conversations[c]
             /\ ( /\ chat_pc[r] = "idle" /\ chat_pc'[r] # "idle"
                  /\ \/ chat_req'[r] = NoConversationId
                     \/ chat_req'[r] \notin DOMAIN conversations ) =>
                  /\ chat_conv_id'[r] \notin DOMAIN conversations
                  /\ chat_conv_id'[r] \in DOMAIN conversations'
                  /\ conversations'[chat_conv_id'[r]] = <<>>
             /\ ( /\ chat_pc[r] = "idle" /\ chat_pc'[r] # "idle"
                  /\ chat_req'[r] \in DOMAIN conversations ) =>
                  /\ chat_conv_id'[r] = chat_req'[r]
                  /\ conversations' = conversations
      ]_vars

\* C18 witness: a request joined the conversation another request had just
\* opened and completed first, so the two were in flight together; the history
\* holds the exchange of the second followed by that of the first.
C18_Witness ==
    \E c \in DOMAIN conversations : \E r1, r2 \in ChatRequests :
        /\ chat_req[r1] = NoConversationId /\ chat_conv_id[r1] = c /\ chat_pc[r1] = "done"
        /\ chat_req[r2] = c /\ chat_pc[r2] = "done"
        /\ conversations[c] = Exchange(r2) \o Exchange(r1)

\* C18 witness: a request on a known conversation failed and a request with an
\* unknown id was given a fresh one.
C18_FailedWitness ==
    \E r1, r2, r3 \in ChatRequests :
        /\ chat_pc[r1] = "done"
        /\ chat_req[r2] = chat_conv_id[r1] /\ chat_pc[r2] = "failed"
        /\ conversations[chat_conv_id[r1]] = Exchange(r1)
        /\ chat_req[r3] = UnknownConversationId /\ chat_pc[r3] = "done"
        /\ chat_response[r3] \in DOMAIN conversations

====
